---- MODULE Spec2Model ----
(***************************************************************************)
(* Verification model of the bank-news-viewer retrieval and reranking      *)
(* engine: recency decay, feature extraction, learned reranking, the       *)
(* training split and the service's model life cycle.                      *)
(*                                                                         *)
(* Numbers that are fractions in the source are scaled integers here:      *)
(* multipliers and scores are in hundredths (1.3 is 130), times in hours.  *)
(***************************************************************************)
EXTENDS Integers, Sequences, FiniteSets, TLC

VARIABLES
    rbNow,      \* recency: the wall clock read by datetime.now(), in hours
    rbPubA,     \* recency: published value of the first document
    rbPubB,     \* recency: published value of the second document
    rbOutA,     \* recency: <<outcome>> of calculate_recency_boost(rbPubA), <<>> before the call
    rbOutB,     \* recency: <<outcome>> of calculate_recency_boost(rbPubB), <<>> before the call
    trDataset,  \* training: the dataset handed to the pipeline, a sequence of rows
    trPc,       \* training: "idle", "split" (partitions computed) or "rejected"
    trBy,       \* training: which pipeline ran: "none", "service" or "script"
    trGroups,   \* training: query_groups, the recorded group sizes
    trTrain,    \* training: the query of each row of X_train, in row order
    trVal,      \* training: the query of each row of X_val / X_test, in row order
    svState,        \* service: "down", "running" or "crashed" (import of the module failed)
    ragClass,       \* service: class of the global rag: "none", "NewsRAGSystem", "LTRNewsRAGSystem"
    ltrModel,       \* service: rag.ltr_model as the id of its artifact, 0 when the attribute is absent
    featureColumns, \* service: rag.feature_columns as the id of its artifact, 0 when absent
    artifactFile,   \* service: content of ltr_model.pkl: [kind, id]
    backups,        \* service: the ltr_model_backup_<timestamp>.pkl files, a set of [stamp, content]
    loopOwner,      \* service: the coroutine the event loop is running, "none" when idle
    rt,             \* service: the retrain request in flight or last answered
    fitCalls,       \* service: how many times model.fit has been called
    retrains,       \* service: how many retrain requests have been received
    lastGood,       \* service: id of the model of the last retrain answered with success
    searches,       \* service: the search requests, by request slot
    ftQuery,    \* features: the query
    ftNews,     \* features: the candidate record
    ftStored,   \* features: the normalized_text values stored for the candidate
    ftNow,      \* features: the wall clock, in hours
    ftOffline,  \* features: <<result>> of LTRDatasetGenerator.calculate_features, <<>> before
    ftOnline,   \* features: <<result>> of LTRNewsRAGSystem.calculate_features, <<>> before
    seQuery,      \* search: the query of the request
    seTopK,       \* search: the top_k of the request
    seCorpus,     \* search: the rows of the news table, in row order
    seNow,        \* search: the wall clock, in hours
    seEmbedding,  \* search: whether get_embedding(query) returns a vector (FALSE: None)
    seArtifact,   \* search: the artifact the global rag has loaded, <<>> when it has none
    seCandidates, \* search: <<candidates>> as super().search_similar returned them, <<>> before
    seResponse,   \* search: the responses of the /search handler to the request, in order
    seFusion,     \* search: <<result>> of hybrid_search_internal, <<>> before the call
    seOthers,     \* search: how many requests with another query have been answered
    inBatch,      \* ingestion: the sources of the batch, each [feed, entries]
    inPc,         \* ingestion: where fetch_and_index_news_async is: "idle", "fetching",
                  \*   "embedding", "writing" or "done"
    inSrc,        \* ingestion: the index of the source being processed
    inResults,    \* ingestion: results of asyncio.gather for the source
    inIdx,        \* ingestion: the index of the result the write loop is at
    inEnt,        \* ingestion: entity rows save_entities has inserted for the result, -1
                  \*   outside save_entities
    inProcessed,  \* ingestion: the indices of the sources whose write loop has ended
    dbStore,      \* ingestion: the committed rows of the database: [news, entities, twice]
    txStore,      \* ingestion: the rows written by the batch's connection and not committed
    srPc,         \* ingestion: the /search request: "none", "pending", "ranked", "scored", "done"
    srRanked,     \* ingestion: <<store>> the search read the news from, <<>> before
    srFeatures,   \* ingestion: <<store>> the search read the entities from, <<>> before
    emBatch,      \* embedding: the sources of the run, each the sequence of its entries
    emMax,        \* embedding: max_concurrent
    emPc,         \* embedding: where the run is: "idle", "gather" or "done"
    emSrc,        \* embedding: the index of the source being processed
    emPermits,    \* embedding: semaphore._value of the source's semaphore
    emTasks,      \* embedding: the state of each task of the source: "waiting",
                  \*   "embedding" or "done"
    mxDataset,    \* matrix: the dataset of the request or of the dataset file
    mxBy,         \* matrix: which pipeline built the matrix: "none", "service", "script"
    mxColumns,    \* matrix: feature_columns, the list that is persisted
    mxX           \* matrix: X, the training matrix, row by row

rbVars == <<rbNow, rbPubA, rbPubB, rbOutA, rbOutB>>

trVars == <<trDataset, trPc, trBy, trGroups, trTrain, trVal>>

svVars == <<svState, ragClass, ltrModel, featureColumns, artifactFile, backups,
            loopOwner, rt, fitCalls, retrains, lastGood, searches>>

ftVars == <<ftQuery, ftNews, ftStored, ftNow, ftOffline, ftOnline>>

seVars == <<seQuery, seTopK, seCorpus, seNow, seEmbedding, seArtifact,
            seCandidates, seResponse, seFusion, seOthers>>

vars == <<rbNow, rbPubA, rbPubB, rbOutA, rbOutB,
          trDataset, trPc, trBy, trGroups, trTrain, trVal,
          svState, ragClass, ltrModel, featureColumns, artifactFile, backups,
          loopOwner, rt, fitCalls, retrains, lastGood, searches,
          ftQuery, ftNews, ftStored, ftNow, ftOffline, ftOnline,
          seQuery, seTopK, seCorpus, seNow, seEmbedding, seArtifact,
          seCandidates, seResponse, seFusion, seOthers,
          inBatch, inPc, inSrc, inResults, inIdx, inEnt, inProcessed, dbStore, txStore,
          srPc, srRanked, srFeatures,
          emBatch, emMax, emPc, emSrc, emPermits, emTasks,
          mxDataset, mxBy, mxColumns, mxX>>

mxVars == <<mxDataset, mxBy, mxColumns, mxX>>

emVars == <<emBatch, emMax, emPc, emSrc, emPermits, emTasks>>

inVars == <<inBatch, inPc, inSrc, inResults, inIdx, inEnt, inProcessed, dbStore, txStore,
            srPc, srRanked, srFeatures>>

\* The service's state without the event loop.
svRest == <<svState, ragClass, ltrModel, featureColumns, artifactFile, backups,
            rt, fitCalls, retrains, lastGood, searches>>

\* The parts of the state each specification leaves alone.
notRb == <<trVars, svVars, ftVars, seVars, inVars, emVars, mxVars>>

notTr == <<rbVars, svVars, ftVars, seVars, inVars, emVars, mxVars>>

notSv == <<rbVars, trVars, ftVars, seVars, inVars, emVars, mxVars>>

notFt == <<rbVars, trVars, svVars, seVars, inVars, emVars, mxVars>>

notSe == <<rbVars, trVars, svVars, ftVars, inVars, emVars, mxVars>>

notIn == <<rbVars, trVars, svRest, ftVars, seVars, emVars, mxVars>>

notEm == <<rbVars, trVars, svVars, ftVars, seVars, inVars, mxVars>>

notMx == <<rbVars, trVars, svVars, ftVars, seVars, inVars, emVars>>

\* The value every part of the state has in a specification that does
\* not exercise it.
RbIdle ==
    /\ rbNow = 0
    /\ rbPubA = [shape |-> "none", t |-> 0]
    /\ rbPubB = [shape |-> "none", t |-> 0]
    /\ rbOutA = <<>>
    /\ rbOutB = <<>>

FtIdle ==
    /\ ftQuery = <<>>
    /\ ftNews = <<>>
    /\ ftStored = {}
    /\ ftNow = 0
    /\ ftOffline = <<>>
    /\ ftOnline = <<>>

SvIdle ==
    /\ svState = "down"
    /\ ragClass = "none"
    /\ ltrModel = 0
    /\ featureColumns = 0
    /\ artifactFile = [kind |-> "missing", id |-> 0]
    /\ backups = {}
    /\ loopOwner = "none"
    /\ rt = [pc |-> "idle", dataset |-> <<>>, rows |-> 0, labeled |-> 0, model |-> 0]
    /\ fitCalls = 0
    /\ retrains = 0
    /\ lastGood = 0
    /\ searches = <<>>

SeIdle ==
    /\ seQuery = <<>>
    /\ seTopK = 0
    /\ seCorpus = <<>>
    /\ seNow = 0
    /\ seEmbedding = FALSE
    /\ seArtifact = <<>>
    /\ seCandidates = <<>>
    /\ seResponse = <<>>
    /\ seFusion = <<>>
    /\ seOthers = 0

MxIdle ==
    /\ mxDataset = <<>>
    /\ mxBy = "none"
    /\ mxColumns = <<>>
    /\ mxX = <<>>

EmIdle ==
    /\ emBatch = <<>>
    /\ emMax = 0
    /\ emPc = "idle"
    /\ emSrc = 0
    /\ emPermits = 0
    /\ emTasks = <<>>

InIdle ==
    /\ inBatch = <<>>
    /\ inPc = "idle"
    /\ inSrc = 0
    /\ inResults = <<>>
    /\ inIdx = 0
    /\ inEnt = -1
    /\ inProcessed = {}
    /\ dbStore = [news |-> {}, entities |-> {}, twice |-> {}]
    /\ txStore = [news |-> {}, entities |-> {}, twice |-> {}]
    /\ srPc = "none"
    /\ srRanked = <<>>
    /\ srFeatures = <<>>

TrIdle ==
    /\ trDataset = <<>>
    /\ trPc = "idle"
    /\ trBy = "none"
    /\ trGroups = <<>>
    /\ trTrain = <<>>
    /\ trVal = <<>>

(***************************************************************************)
(* Published timestamps.  A stored `published` value is free-form text; it *)
(* is modelled by its shape (which parser accepts it) and the instant it   *)
(* denotes, in hours.                                                      *)
(*   none       NULL / None                                                *)
(*   empty      ""                                                         *)
(*   rfc_dow    "Mon, 12 Jan 2025 10:00:00 +0000"  (RFC 2822, weekday)     *)
(*   rfc_nodow  "12 Jan 2025 10:00:00 +0000"       (RFC 2822, no weekday)  *)
(*   iso        "2025-01-12T10:00:00"              (ISO, naive)            *)
(*   iso_z      "2025-01-12T10:00:00Z"             (ISO, UTC suffix)       *)
(*   garbage    "yesterday"                        (no parser accepts it)  *)
(*   dow_text   "Monday morning"                   (weekday prefix only)   *)
(***************************************************************************)
ParsableShapes == {"rfc_dow", "rfc_nodow", "iso", "iso_z"}

UnparsableShapes == {"none", "empty", "garbage", "dow_text"}

\* Half-width of the window of ages sampled around each bucket threshold.
AgeWindow == 2

\* The clock value of the recency checks (any instant: only ages matter).
ClockHour == 1000

\* Ages (hours) at which documents are sampled: around every threshold of
\* the bucket table, around zero (future-dated documents have negative
\* ages), and the five ages the specification's property test names.
SampleAges ==
    UNION { { th + d : d \in (0 - AgeWindow)..AgeWindow } : th \in {0, 24, 72, 168, 720} }
        \cup {-48, 10, 50, 100, 400, 1000}

Timestamps ==
    [shape : ParsableShapes, t : { ClockHour - a : a \in SampleAges }]
        \cup [shape : UnparsableShapes, t : {0}]

\* email.utils.parsedate_to_datetime: accepts RFC 2822 text, raises otherwise.
parsedate_to_datetime(p) ==
    IF p.shape \in {"rfc_dow", "rfc_nodow"}
    THEN [ok |-> TRUE, t |-> p.t]
    ELSE [ok |-> FALSE, t |-> 0]

\* datetime.fromisoformat(published.replace('Z', '+00:00')): accepts ISO
\* text with or without the Z suffix, raises ValueError otherwise.
fromisoformat(p) ==
    IF p.shape \in {"iso", "iso_z"}
    THEN [ok |-> TRUE, t |-> p.t]
    ELSE [ok |-> FALSE, t |-> 0]

\* Python truthiness of the published value: `not published`.
IsFalsy(p) == p.shape \in {"none", "empty"}

\* Mutant of RecencyBucket: a future-dated document (negative age) is
\* treated as undated and gets no boost.
RecencyBucket_FutureUnboosted(age_hours) ==
    IF age_hours < 0 THEN 100
    ELSE IF age_hours < 24 THEN 130
    ELSE IF age_hours < 72 THEN 120
    ELSE IF age_hours < 168 THEN 110
    ELSE IF age_hours < 720 THEN 105
    ELSE 100

\* The bucket table of calculate_recency_boost, in hundredths.
RecencyBucket(age_hours) ==
    IF age_hours < 24 THEN 130
    ELSE IF age_hours < 72 THEN 120
    ELSE IF age_hours < 168 THEN 110
    ELSE IF age_hours < 720 THEN 105
    ELSE 100

\* Mutant of RecencyOnError: no outer handler, the parse error propagates.
RecencyOnError_Propagates == [raised |-> TRUE, value |-> 0]

\* What the outer `except Exception` of calculate_recency_boost does with
\* an exception raised in its body.
RecencyOnError == [raised |-> FALSE, value |-> 100]

\* calculate_recency_boost(published_date) run at clock `now`; the result
\* records whether the call raised and the multiplier it returned.
calculate_recency_boost(p, now) ==
    IF IsFalsy(p) THEN [raised |-> FALSE, value |-> 100]
    ELSE LET rfc == parsedate_to_datetime(p)
             iso == fromisoformat(p)
         IN  IF rfc.ok
             THEN [raised |-> FALSE, value |-> RecencyBucket(now - rfc.t)]
             ELSE IF iso.ok
                  THEN [raised |-> FALSE, value |-> RecencyBucket(now - iso.t)]
                  ELSE RecencyOnError

(***************************************************************************)
(* Recency specification: two documents are scored at the same clock.      *)
(***************************************************************************)
RbInit ==
    /\ InIdle
    /\ EmIdle
    /\ MxIdle
    /\ TrIdle
    /\ SvIdle
    /\ FtIdle
    /\ SeIdle
    /\ rbNow = ClockHour
    /\ rbPubA \in Timestamps
    /\ rbPubB \in Timestamps
    /\ rbOutA = <<>>
    /\ rbOutB = <<>>

RbScoreA ==
    /\ rbOutA = <<>>
    /\ rbOutA' = <<calculate_recency_boost(rbPubA, rbNow)>>
    /\ UNCHANGED <<rbNow, rbPubA, rbPubB, rbOutB>>
    /\ UNCHANGED notRb

RbScoreB ==
    /\ rbOutB = <<>>
    /\ rbOutB' = <<calculate_recency_boost(rbPubB, rbNow)>>
    /\ UNCHANGED <<rbNow, rbPubA, rbPubB, rbOutA>>
    /\ UNCHANGED notRb

RbNext == RbScoreA \/ RbScoreB

SpecRecency == RbInit /\ [][RbNext]_vars

\* The age in hours that document p has at clock `now`.
AgeHours(p, now) == now - p.t

\* The multiplier table as the specification states it, in hundredths.
StatedMultiplier(age) ==
    CASE age < 24 -> 130
      [] age >= 24 /\ age < 72 -> 120
      [] age >= 72 /\ age < 168 -> 110
      [] age >= 168 /\ age < 720 -> 105
      [] OTHER -> 100

\* C9: the recency multiplier is non-increasing in document age, negative
\* ages of future-dated documents included: of two dated documents scored
\* at the same clock the older one never gets the larger multiplier, and
\* each multiplier is the stated one for its age bucket (1.30 under 24h,
\* 1.20 under 72h, 1.10 under 168h, 1.05 under 720h, 1.00 otherwise).
C9_RecencyNonIncreasing ==
    (/\ rbOutA # <<>>
     /\ rbOutB # <<>>
     /\ rbPubA.shape \in ParsableShapes
     /\ rbPubB.shape \in ParsableShapes
     /\ AgeHours(rbPubA, rbNow) <= AgeHours(rbPubB, rbNow))
        => /\ rbOutA[1].value >= rbOutB[1].value
           /\ rbOutA[1].value = StatedMultiplier(AgeHours(rbPubA, rbNow))
           /\ rbOutB[1].value = StatedMultiplier(AgeHours(rbPubB, rbNow))

\* C9 witness: a future-dated document and a document older than a month
\* have both been scored, the first at 1.30 and the second at 1.00.
C9_Witness ==
    /\ rbOutA # <<>>
    /\ rbOutB # <<>>
    /\ rbPubA.shape \in ParsableShapes
    /\ rbPubB.shape \in ParsableShapes
    /\ AgeHours(rbPubA, rbNow) < 0
    /\ AgeHours(rbPubB, rbNow) >= 720
    /\ rbOutA[1].value = 130
    /\ rbOutB[1].value = 100

\* C10: calculate_recency_boost never raises, and for an absent, empty or
\* unparsable published value it returns exactly 1.0.
C10_RecencyNeverRaises ==
    /\ rbOutA # <<>> =>
          /\ ~rbOutA[1].raised
          /\ rbPubA.shape \in UnparsableShapes => rbOutA[1].value = 100
    /\ rbOutB # <<>> =>
          /\ ~rbOutB[1].raised
          /\ rbPubB.shape \in UnparsableShapes => rbOutB[1].value = 100

\* C10 witness: text that neither parser accepts has been scored and the
\* call returned 1.0.
C10_Witness ==
    /\ rbOutA # <<>>
    /\ rbPubA.shape \in {"garbage", "dow_text"}
    /\ ~rbOutA[1].raised
    /\ rbOutA[1].value = 100

(***************************************************************************)
(* Training split.  A dataset row carries its query and its label; the     *)
(* label is "null" for a row that has not been annotated.  Query strings   *)
(* are numbered in their sort order.                                       *)
(***************************************************************************)
Queries == {1, 2}

LabelSamples == {"null", "2"}

\* Most runs of same-query rows a sampled dataset is built from, and the
\* most rows of one run.
MaxRuns == 3

MaxRunLen == 5

\* The minimum number of labeled examples retrain accepts.
MinLabeled == 10

RECURSIVE Repeat(_, _)
Repeat(x, n) == IF n = 0 THEN <<>> ELSE <<x>> \o Repeat(x, n - 1)

RECURSIVE Flatten(_)
Flatten(ss) == IF ss = <<>> THEN <<>> ELSE Head(ss) \o Flatten(Tail(ss))

RunShapes == [query : Queries, label : LabelSamples, n : 1..MaxRunLen]

\* The datasets a request or a dataset file can hold: rows in any order, a
\* query's rows possibly in several separate runs (as after merging files).
Datasets ==
    { Flatten([i \in 1..Len(rs) |->
                  Repeat([query |-> rs[i].query, label |-> rs[i].label], rs[i].n)]) :
        rs \in UNION { [1..k -> RunShapes] : k \in 1..MaxRuns } }

\* labeled_data: the rows whose label is not None.
LabeledData(dataset) == SelectSeq(dataset, LAMBDA r : r.label # "null")

QueryColumn(rows) == [i \in 1..Len(rows) |-> rows[i].query]

RECURSIVE SumSeq(_)
SumSeq(ns) == IF ns = <<>> THEN 0 ELSE Head(ns) + SumSeq(Tail(ns))

\* The loop of retrain_ltr_model that records a group size whenever the
\* query changes from one row to the next; state is (current_query,
\* current_count, query_groups), current_query 0 standing for None.
RECURSIVE GroupLoop(_, _, _, _)
GroupLoop(queries, current_query, current_count, query_groups) ==
    IF queries = <<>>
    THEN Append(query_groups, current_count)
    ELSE IF Head(queries) # current_query
         THEN GroupLoop(Tail(queries), Head(queries), 1,
                        IF current_count > 0
                        THEN Append(query_groups, current_count)
                        ELSE query_groups)
         ELSE GroupLoop(Tail(queries), current_query, current_count + 1, query_groups)

ServiceQueryGroups(queries) == GroupLoop(queries, 0, 0, <<>>)

\* df.groupby('query').size().values of prepare_training_data: one size
\* per distinct query, in the sort order of the query strings.
RECURSIVE SortedSeq(_)
SortedSeq(S) ==
    IF S = {} THEN <<>>
    ELSE LET m == CHOOSE x \in S : \A y \in S : x <= y
         IN  <<m>> \o SortedSeq(S \ {m})

ScriptQueryGroups(queries) ==
    LET keys == SortedSeq({ queries[i] : i \in 1..Len(queries) })
    IN  [k \in 1..Len(keys) |->
            Cardinality({ i \in 1..Len(queries) : queries[i] = keys[k] })]

\* int(0.8 * n): the number of groups of the train partition.
SplitIdx(n) == (8 * n) \div 10

Prefix(s, n) == SubSeq(s, 1, IF n < Len(s) THEN n ELSE Len(s))

Suffix(s, n) == SubSeq(s, (IF n < Len(s) THEN n ELSE Len(s)) + 1, Len(s))

\* train_size = sum(query_groups[:split_idx]).
TrainSize(query_groups) == SumSeq(Prefix(query_groups, SplitIdx(Len(query_groups))))

TrInit ==
    /\ InIdle
    /\ EmIdle
    /\ MxIdle
    /\ RbIdle
    /\ SvIdle
    /\ FtIdle
    /\ SeIdle
    /\ trDataset \in Datasets
    /\ trPc = "idle"
    /\ trBy = "none"
    /\ trGroups = <<>>
    /\ trTrain = <<>>
    /\ trVal = <<>>

\* POST /api/ltr/retrain up to the train/validation split: too few labeled
\* rows raise HTTPException before anything is computed.
RetrainSplit ==
    /\ trPc = "idle"
    /\ LET labeled_data == LabeledData(trDataset)
           queries == QueryColumn(labeled_data)
           query_groups == ServiceQueryGroups(queries)
           train_size == TrainSize(query_groups)
       IN  IF Len(labeled_data) < MinLabeled
           THEN /\ trPc' = "rejected"
                /\ trBy' = "service"
                /\ UNCHANGED <<trGroups, trTrain, trVal>>
           ELSE /\ trPc' = "split"
                /\ trBy' = "service"
                /\ trGroups' = query_groups
                /\ trTrain' = Prefix(queries, train_size)
                /\ trVal' = Suffix(queries, train_size)
    /\ UNCHANGED trDataset
    /\ UNCHANGED notTr

\* train_ltr_model.py: load_annotated_dataset, prepare_training_data and the
\* split of train_lightgbm_ranker; a dataset with no labeled row raises.
ScriptSplit ==
    /\ trPc = "idle"
    /\ LET annotated == LabeledData(trDataset)
           queries == QueryColumn(annotated)
           query_groups == ScriptQueryGroups(queries)
           train_size == TrainSize(query_groups)
       IN  IF annotated = <<>>
           THEN /\ trPc' = "rejected"
                /\ trBy' = "script"
                /\ UNCHANGED <<trGroups, trTrain, trVal>>
           ELSE /\ trPc' = "split"
                /\ trBy' = "script"
                /\ trGroups' = query_groups
                /\ trTrain' = Prefix(queries, train_size)
                /\ trVal' = Suffix(queries, train_size)
    /\ UNCHANGED trDataset
    /\ UNCHANGED notTr

TrNext == RetrainSplit \/ ScriptSplit

SpecTrain == TrInit /\ [][TrNext]_vars

SeqRange(s) == { s[i] : i \in 1..Len(s) }

\* C3: the 80/20 split never places rows of the same query in both the
\* train partition and the validation partition, for any dataset.
C3_SplitKeepsQueriesTogether ==
    trPc = "split" => SeqRange(trTrain) \cap SeqRange(trVal) = {}

(***************************************************************************)
(* The service: start-up, the /search handler and the /api/ltr/retrain     *)
(* handler.  Both handlers are coroutines (async def) without any await,   *)
(* so the event loop runs each of them from its first statement to its     *)
(* return before it runs anything else; the handlers are modelled          *)
(* statement group by statement group under that scheduling.               *)
(***************************************************************************)
Requests == {"s1", "s2"}

\* Most retrain requests of a run.
MaxRetrains == 2

Row(q, l) == [query |-> q, label |-> l]

\* The datasets of the retrain requests: a run of labeled rows of one
\* query, then unlabeled rows, then labeled rows of a second query, with
\* labeled totals on both sides of the minimum.
SvcDatasets ==
    { Repeat(Row(1, "2"), a) \o Repeat(Row(1, "null"), u) \o Repeat(Row(2, "2"), b) :
        a \in {MinLabeled - 6, MinLabeled - 1, MinLabeled}, u \in {0, 1}, b \in {0, 1, 6} }

Missing == [kind |-> "missing", id |-> 0]

Malformed == [kind |-> "malformed", id |-> 0]

Valid(id) == [kind |-> "valid", id |-> id]

IdleRequest == [pc |-> "idle", cols |-> 0, model |-> 0, expect |-> 0, rankedBy |-> "none"]

\* Mutant of MayStep: the handlers run on worker threads (def instead of
\* async def), so their statements interleave freely.
MayStep_Threaded(task) == TRUE

\* The event loop runs `task` only when it runs nothing else; a handler
\* that has started keeps the loop until it returns.
MayStep(task) == loopOwner \in {"none", task}

\* LTRNewsRAGSystem.__init__: pickle.load of the artifact and the two
\* attribute assignments; there is no handler around pickle.load.
LoadArtifact(file) ==
    IF file.kind = "valid"
    THEN [raised |-> FALSE, model |-> file.id, columns |-> file.id]
    ELSE [raised |-> TRUE, model |-> 0, columns |-> 0]

SvInit ==
    /\ InIdle
    /\ EmIdle
    /\ MxIdle
    /\ RbIdle
    /\ TrIdle
    /\ FtIdle
    /\ SeIdle
    /\ svState = "down"
    /\ ragClass = "none"
    /\ ltrModel = 0
    /\ featureColumns = 0
    /\ artifactFile \in {Missing, Malformed, Valid(1)}
    /\ backups = {}
    /\ loopOwner = "none"
    /\ rt = [pc |-> "idle", dataset |-> <<>>, rows |-> 0, labeled |-> 0, model |-> 0]
    /\ fitCalls = 0
    /\ retrains = 0
    /\ lastGood = 0
    /\ searches = [s \in Requests |-> IdleRequest]

\* Module import: the global rag is an LTRNewsRAGSystem when the artifact
\* file exists and a NewsRAGSystem otherwise.
Startup ==
    /\ svState = "down"
    /\ IF artifactFile.kind = "missing"
       THEN /\ ragClass' = "NewsRAGSystem"
            /\ svState' = "running"
            /\ UNCHANGED <<ltrModel, featureColumns>>
       ELSE LET loaded == LoadArtifact(artifactFile)
            IN  IF loaded.raised
                THEN /\ svState' = "crashed"
                     /\ UNCHANGED <<ragClass, ltrModel, featureColumns>>
                ELSE /\ svState' = "running"
                     /\ ragClass' = "LTRNewsRAGSystem"
                     /\ ltrModel' = loaded.model
                     /\ featureColumns' = loaded.columns
    /\ UNCHANGED <<artifactFile, backups, loopOwner, rt, fitCalls, retrains,
                   lastGood, searches>>
    /\ UNCHANGED notSv

\* Mutant of TooFewLabeled: the rows are counted before the unlabeled ones
\* are filtered out.
TooFewLabeled_CountsAllRows(dataset) == Len(dataset) < MinLabeled

\* Whether retrain rejects the dataset: fewer than MinLabeled rows carry a
\* label.
TooFewLabeled(dataset) == Len(LabeledData(dataset)) < MinLabeled

\* POST /api/ltr/retrain, from the handler's entry to the split: read the
\* old importances, filter the labeled rows, reject a dataset with too few
\* of them (the HTTPException is raised before any training statement).
RetrainStart(d) ==
    /\ svState = "running"
    /\ rt.pc \in {"idle", "done", "failed"}
    /\ retrains < MaxRetrains
    /\ MayStep("retrain")
    /\ retrains' = retrains + 1
    /\ IF TooFewLabeled(d)
       THEN /\ rt' = [pc |-> "failed", dataset |-> <<>>, rows |-> Len(d),
                      labeled |-> Len(LabeledData(d)), model |-> 0]
            /\ loopOwner' = "none"
       ELSE /\ rt' = [pc |-> "fit", dataset |-> d, rows |-> Len(d),
                      labeled |-> Len(LabeledData(d)), model |-> 0]
            /\ loopOwner' = "retrain"
    /\ UNCHANGED <<svState, ragClass, ltrModel, featureColumns, artifactFile, backups,
                   fitCalls, lastGood, searches>>
    /\ UNCHANGED notSv

\* model.fit on the train partition: it returns a new model or raises (an
\* empty train partition always raises); an exception ends the request.
RetrainFit ==
    /\ rt.pc = "fit"
    /\ MayStep("retrain")
    /\ fitCalls' = fitCalls + 1
    /\ \E fitted \in BOOLEAN :
          /\ fitted => TrainSize(ServiceQueryGroups(QueryColumn(LabeledData(rt.dataset)))) > 0
          /\ IF fitted
             THEN /\ rt' = [rt EXCEPT !.pc = "backup", !.model = retrains + 1]
                  /\ UNCHANGED loopOwner
             ELSE /\ rt' = [rt EXCEPT !.pc = "failed", !.dataset = <<>>]
                  /\ loopOwner' = "none"
    /\ UNCHANGED <<svState, ragClass, ltrModel, featureColumns, artifactFile, backups,
                   retrains, lastGood, searches>>
    /\ UNCHANGED notSv

\* datetime.now().strftime("%Y%m%d_%H%M%S"): the stamps a retrain can
\* read.  The stamp has a resolution of one second, so a retrain reads the
\* stamp of the latest backup or a later one.
Stamps == { stamp \in 1..MaxRetrains : \A b \in backups : stamp >= b.stamp }

\* shutil.copy(src, dst): dst holds the content of src, whatever it held.
Copy(files, stamp, content) ==
    { b \in files : b.stamp # stamp } \cup {[stamp |-> stamp, content |-> content]}

\* shutil.copy of the current artifact to ltr_model_backup_<timestamp>.pkl
\* when the artifact file exists.
RetrainBackup ==
    /\ rt.pc = "backup"
    /\ MayStep("retrain")
    /\ \E stamp \in Stamps :
          backups' = IF artifactFile.kind # "missing"
                     THEN Copy(backups, stamp, artifactFile)
                     ELSE backups
    /\ rt' = [rt EXCEPT !.pc = "persist"]
    /\ UNCHANGED <<svState, ragClass, ltrModel, featureColumns, artifactFile, loopOwner,
                   fitCalls, retrains, lastGood, searches>>
    /\ UNCHANGED notSv

\* pickle.dump of the new model and its feature columns to ltr_model.pkl.
RetrainPersist ==
    /\ rt.pc = "persist"
    /\ MayStep("retrain")
    /\ artifactFile' = Valid(rt.model)
    /\ rt' = [rt EXCEPT !.pc = "swap_model"]
    /\ UNCHANGED <<svState, ragClass, ltrModel, featureColumns, backups, loopOwner,
                   fitCalls, retrains, lastGood, searches>>
    /\ UNCHANGED notSv

\* rag.ltr_model = model
RetrainSwapModel ==
    /\ rt.pc = "swap_model"
    /\ MayStep("retrain")
    /\ ltrModel' = rt.model
    /\ rt' = [rt EXCEPT !.pc = "swap_columns"]
    /\ UNCHANGED <<svState, ragClass, featureColumns, artifactFile, backups, loopOwner,
                   fitCalls, retrains, lastGood, searches>>
    /\ UNCHANGED notSv

\* rag.feature_columns = feature_columns
RetrainSwapColumns ==
    /\ rt.pc = "swap_columns"
    /\ MayStep("retrain")
    /\ featureColumns' = rt.model
    /\ rt' = [rt EXCEPT !.pc = "metrics"]
    /\ UNCHANGED <<svState, ragClass, ltrModel, artifactFile, backups, loopOwner,
                   fitCalls, retrains, lastGood, searches>>
    /\ UNCHANGED notSv

\* Validation NDCG and the response: ndcg_score returns or raises; the
\* handler answers success or, through its except clause, an error.
RetrainMetrics ==
    /\ rt.pc = "metrics"
    /\ MayStep("retrain")
    /\ \E scored \in BOOLEAN :
          /\ rt' = [rt EXCEPT !.pc = IF scored THEN "done" ELSE "failed",
                              !.dataset = <<>>]
          /\ lastGood' = IF scored THEN rt.model ELSE lastGood
    /\ loopOwner' = "none"
    /\ UNCHANGED <<svState, ragClass, ltrModel, featureColumns, artifactFile, backups,
                   fitCalls, retrains, searches>>
    /\ UNCHANGED notSv

\* POST /search enters the handler and calls rag.search_similar; `expect`
\* notes the model of the last retrain answered with success at that time.
SearchStart(s) ==
    /\ svState = "running"
    /\ searches[s].pc = "idle"
    /\ MayStep(s)
    /\ searches' = [searches EXCEPT ![s] = [IdleRequest EXCEPT !.pc = "called",
                                                               !.expect = lastGood]]
    /\ loopOwner' = s
    /\ UNCHANGED <<svState, ragClass, ltrModel, featureColumns, artifactFile, backups,
                   rt, fitCalls, retrains, lastGood>>
    /\ UNCHANGED notSv

\* rag is a NewsRAGSystem: NewsRAGSystem.search_similar ranks by cosine
\* similarity and the handler answers; no model attribute is read.
SearchBase(s) ==
    /\ searches[s].pc = "called"
    /\ ragClass = "NewsRAGSystem"
    /\ MayStep(s)
    /\ searches' = [searches EXCEPT ![s].pc = "done", ![s].rankedBy = "base"]
    /\ loopOwner' = "none"
    /\ UNCHANGED <<svState, ragClass, ltrModel, featureColumns, artifactFile, backups,
                   rt, fitCalls, retrains, lastGood>>
    /\ UNCHANGED notSv

\* rag is an LTRNewsRAGSystem: the widened candidate list of
\* super().search_similar; an empty list is answered at once.
SearchCandidates(s) ==
    /\ searches[s].pc = "called"
    /\ ragClass = "LTRNewsRAGSystem"
    /\ MayStep(s)
    /\ \E found \in BOOLEAN :
          IF found
          THEN /\ searches' = [searches EXCEPT ![s].pc = "features"]
               /\ UNCHANGED loopOwner
          ELSE /\ searches' = [searches EXCEPT ![s].pc = "done", ![s].rankedBy = "empty"]
               /\ loopOwner' = "none"
    /\ UNCHANGED <<svState, ragClass, ltrModel, featureColumns, artifactFile, backups,
                   rt, fitCalls, retrains, lastGood>>
    /\ UNCHANGED notSv

\* The feature vectors, each reordered by self.feature_columns.
SearchFeatures(s) ==
    /\ searches[s].pc = "features"
    /\ MayStep(s)
    /\ searches' = [searches EXCEPT ![s].pc = "predict", ![s].cols = featureColumns]
    /\ UNCHANGED <<svState, ragClass, ltrModel, featureColumns, artifactFile, backups,
                   loopOwner, rt, fitCalls, retrains, lastGood>>
    /\ UNCHANGED notSv

\* self.ltr_model.predict, the sort by ltr_score and the answer.
SearchPredict(s) ==
    /\ searches[s].pc = "predict"
    /\ MayStep(s)
    /\ searches' = [searches EXCEPT ![s].pc = "done", ![s].model = ltrModel,
                                    ![s].rankedBy = "ltr"]
    /\ loopOwner' = "none"
    /\ UNCHANGED <<svState, ragClass, ltrModel, featureColumns, artifactFile, backups,
                   rt, fitCalls, retrains, lastGood>>
    /\ UNCHANGED notSv

\* The answered request leaves; its slot takes the next request.
SearchLeave(s) ==
    /\ searches[s].pc = "done"
    /\ searches' = [searches EXCEPT ![s] = IdleRequest]
    /\ UNCHANGED <<svState, ragClass, ltrModel, featureColumns, artifactFile, backups,
                   loopOwner, rt, fitCalls, retrains, lastGood>>
    /\ UNCHANGED notSv

SvNext ==
    \/ Startup
    \/ \E d \in SvcDatasets : RetrainStart(d)
    \/ RetrainFit
    \/ RetrainBackup
    \/ RetrainPersist
    \/ RetrainSwapModel
    \/ RetrainSwapColumns
    \/ RetrainMetrics
    \/ \E s \in Requests :
          \/ SearchStart(s)
          \/ SearchBase(s)
          \/ SearchCandidates(s)
          \/ SearchFeatures(s)
          \/ SearchPredict(s)
          \/ SearchLeave(s)

SpecService == SvInit /\ [][SvNext]_vars

\* Every search that scored with the model reordered its features by the
\* column list of the same artifact.
SearchesSelfConsistent ==
    \A s \in Requests :
        searches[s].rankedBy = "ltr" => searches[s].cols = searches[s].model

\* C4: in every interleaving of a retrain with searches, each search uses
\* a model and a feature-column list of the same artifact, and the reload
\* is one atomic swap: the in-memory model and column list never belong to
\* different artifacts.
C4_ReloadIsAtomicSwap ==
    /\ SearchesSelfConsistent
    /\ ltrModel = featureColumns

\* C5: once a retrain has been answered with success, every search that
\* starts afterwards and has candidates is ranked by the model that
\* retrain trained, also when the service started without an artifact.
C5_SearchUsesRetrainedModel ==
    \A s \in Requests :
        (/\ searches[s].pc = "done"
         /\ searches[s].expect # 0
         /\ searches[s].rankedBy # "empty")
            => /\ searches[s].rankedBy = "ltr"
               /\ searches[s].model = searches[s].expect

\* C6: a missing artifact and an artifact that fails to load both leave
\* the service started with the reranker in BaseRanking; loading the
\* artifact is never fatal.
C6_StartupNeverFatal ==
    /\ svState # "crashed"
    /\ (svState = "running" /\ retrains = 0 /\ artifactFile.kind # "valid")
          => (ragClass = "NewsRAGSystem" /\ ltrModel = 0)

\* C7: a retrain request whose dataset has fewer than 10 labeled rows is
\* answered with an error before model.fit is called, and leaves the
\* in-memory model, the in-memory column list, the persisted artifact and
\* the backups unchanged.
C7_TooFewLabeledRejected ==
    [][ (rt' # rt /\ rt'.pc # "idle" /\ rt'.labeled < MinLabeled)
           => /\ rt'.pc = "failed"
              /\ UNCHANGED <<ltrModel, featureColumns, artifactFile, backups, fitCalls>>
      ]_vars

\* C7 witness: with a model in memory and a backup on disk, a request of
\* at least 10 rows of which fewer than 10 are labeled has been rejected.
C7_Witness ==
    /\ rt.pc = "failed"
    /\ rt.rows >= MinLabeled
    /\ rt.labeled < MinLabeled
    /\ ltrModel # 0
    /\ backups # {}

(***************************************************************************)
(* Text.  A Python str is a sequence of one-character strings over a small *)
(* alphabet: the letters a, b, s, the capitals A, B and the blank.         *)
(***************************************************************************)
\* str.lower() of one character.
LowerChar(c) == IF c = "A" THEN "a" ELSE IF c = "B" THEN "b" ELSE c

\* str.lower()
Lower(s) == [i \in 1..Len(s) |-> LowerChar(s[i])]

\* `word in text` for two str values: word occurs as a substring.
Contains(text, word) ==
    \E i \in 0..(Len(text) - Len(word)) :
        \A j \in 1..Len(word) : text[i + j] = word[j]

\* str.split(): the maximal runs of non-blank characters, in order.
RECURSIVE SplitLoop(_, _, _)
SplitLoop(s, current, words) ==
    IF s = <<>>
    THEN IF current = <<>> THEN words ELSE Append(words, current)
    ELSE IF Head(s) = " "
         THEN SplitLoop(Tail(s), <<>>,
                        IF current = <<>> THEN words ELSE Append(words, current))
         ELSE SplitLoop(Tail(s), Append(current, Head(s)), words)

Split(s) == SplitLoop(s, <<>>, <<>>)

\* f"{title} {description}"
JoinBlank(a, b) == a \o <<" ">> \o b

\* str.startswith of a capital letter: the first character is upper case.
IsUpperChar(c) == c \in {"A", "B"}

\* pymorphy2's parse(word)[0].normal_form: the lower-case lemma; the
\* lemma of a word ending in the inflection "s" is the word without it.
NormalForm(word) ==
    LET w == Lower(word)
    IN  IF Len(w) > 1 /\ w[Len(w)] = "s" THEN SubSeq(w, 1, Len(w) - 1) ELSE w

RECURSIVE Gcd(_, _)
Gcd(a, b) == IF b = 0 THEN a ELSE Gcd(b, a % b)

\* The float a / b (b > 0), as the fraction in lowest terms.
Frac(a, b) == LET g == Gcd(a, b) IN [n |-> a \div g, d |-> b \div g]

\* A whole number as a float.
Whole(a) == [n |-> a, d |-> 1]

\* The float nan, which 0.0 / 0.0 of numpy gives: the fraction without a
\* denominator.  It is neither greater nor less than any float.
NaN == [n |-> 0, d |-> 0]

\* math.isfinite(x) of a float held as a fraction.
IsFinite(x) == x.d > 0

\* The float (a / b) * x for whole a and b > 0; nan for x = nan.
FScale(a, b, x) == IF IsFinite(x) THEN Frac(a * x.n, b * x.d) ELSE NaN

\* The float x + y; nan when either is nan.
FAdd(x, y) ==
    IF IsFinite(x) /\ IsFinite(y) THEN Frac(x.n * y.d + y.n * x.d, x.d * y.d) ELSE NaN

\* NewsNERExtractor.extract_from_news(query, "")['all'] as the set of the
\* entities' normalized texts: nothing for text shorter than 3 characters
\* after strip(); otherwise a span for every capitalised word, normalized
\* by normalize_entity (words of at most 2 characters and all-capital
\* words are kept, other words become their capitalised lemma).
NormalizeEntity(word) ==
    IF Len(word) <= 2 \/ (\A i \in 1..Len(word) : IsUpperChar(word[i]))
    THEN word
    ELSE LET nf == NormalForm(word)
         IN  IF IsUpperChar(word[1]) THEN <<word[1]>> \o Tail(nf) ELSE nf

Strip(s) ==
    LET idx == { i \in 1..Len(s) : s[i] # " " }
    IN  IF idx = {} THEN <<>>
        ELSE SubSeq(s, CHOOSE i \in idx : \A j \in idx : i <= j,
                       CHOOSE i \in idx : \A j \in idx : i >= j)

ExtractFromNews(text) ==
    IF Len(Strip(text)) < 3 THEN {}
    ELSE LET words == Split(text)
         IN  { NormalizeEntity(words[i]) :
                  i \in { k \in 1..Len(words) : IsUpperChar(words[k][1]) } }

(***************************************************************************)
(* Feature extraction, as LTRDatasetGenerator (offline dataset generation, *)
(* prefix Gen) and as LTRNewsRAGSystem (online scoring, prefix LTR) code   *)
(* it.  A news record has the fields title, description, published,        *)
(* source and similarity (a float); its source is modelled by whether     *)
(* its lower-cased name contains a high-authority and a medium-authority   *)
(* name.                                                                   *)
(***************************************************************************)

\* LTRDatasetGenerator._calculate_bm25_approx
Gen_calculate_bm25_approx(query, news) ==
    LET query_words == SeqRange(Split(Lower(query)))
        text == Lower(JoinBlank(news.title, news.description))
        matches == Cardinality({ word \in query_words : Contains(text, word) })
    IN  IF query_words # {} THEN Frac(matches, Cardinality(query_words)) ELSE Whole(0)

\* LTRDatasetGenerator._calculate_ner_overlap; `stored` is the result of SELECT
\* normalized_text FROM entities WHERE news_id = ?, empty values dropped.
Gen_calculate_ner_overlap(query, stored) ==
    LET query_ner_set == { Lower(e) : e \in ExtractFromNews(query) }
        news_ner_set == { Lower(e) : e \in { x \in stored : x # <<>> } }
        intersection == query_ner_set \cap news_ner_set
        union == query_ner_set \cup news_ner_set
    IN  IF query_ner_set = {} THEN Whole(0)
        ELSE IF news_ner_set = {} THEN Whole(0)
        ELSE Frac(Cardinality(intersection), Cardinality(union))

\* LTRDatasetGenerator._calculate_morpho_match
Gen_calculate_morpho_match(query, news) ==
    LET query_words == Split(Lower(query))
        text == Lower(JoinBlank(news.title, news.description))
        matches == Cardinality({ i \in 1..Len(query_words) :
                        \/ Contains(text, NormalForm(query_words[i]))
                        \/ Contains(text, query_words[i]) })
    IN  IF query_words # <<>> THEN Frac(matches, Len(query_words)) ELSE Whole(0)

\* The share of the title's words that the query holds.
Gen_calculate_title_match_OverTitle(query, title) ==
    LET query_words == SeqRange(Split(Lower(query)))
        title_words == SeqRange(Split(Lower(title)))
    IN  IF query_words = {} \/ title_words = {} THEN Whole(0)
        ELSE Frac(Cardinality(query_words \cap title_words), Cardinality(title_words))

\* LTRDatasetGenerator._calculate_title_match
Gen_calculate_title_match(query, title) ==
    LET query_words == SeqRange(Split(Lower(query)))
        title_words == SeqRange(Split(Lower(title)))
        matches == query_words \cap title_words
    IN  IF query_words = {} THEN Whole(0)
        ELSE Frac(Cardinality(matches), Cardinality(query_words))

\* LTRDatasetGenerator._calculate_days_ago: the parser is chosen by the weekday prefix;
\* timedelta.days is the floor of the age in days.
Gen_calculate_days_ago(published, now) ==
    IF IsFalsy(published) THEN Whole(999)
    ELSE LET parsed == IF published.shape \in {"rfc_dow", "dow_text"}
                       THEN parsedate_to_datetime(published)
                       ELSE fromisoformat(published)
             delta == (now - parsed.t) \div 24
         IN  IF ~parsed.ok THEN Whole(999)
             ELSE Whole(IF delta > 0 THEN delta ELSE 0)

\* LTRDatasetGenerator._get_source_authority
Gen_get_source_authority(source) ==
    IF source.high THEN Whole(1)
    ELSE IF source.medium THEN Frac(1, 2)
    ELSE Whole(0)

\* LTRDatasetGenerator.calculate_features: the feature dictionary as the sequence
\* of its (name, value) items in insertion order.
Gen_calculate_features(query, news, stored, now) ==
    << [name |-> "embedding_score", value |-> news.similarity],
       [name |-> "bm25_score", value |-> Gen_calculate_bm25_approx(query, news)],
       [name |-> "ner_overlap", value |-> Gen_calculate_ner_overlap(query, stored)],
       [name |-> "morpho_match", value |-> Gen_calculate_morpho_match(query, news)],
       [name |-> "title_match", value |-> Gen_calculate_title_match(query, news.title)],
       [name |-> "exact_match",
        value |-> IF Contains(Lower(news.title), Lower(query)) THEN Whole(1) ELSE Whole(0)],
       [name |-> "days_ago", value |-> Gen_calculate_days_ago(news.published, now)],
       [name |-> "source_authority", value |-> Gen_get_source_authority(news.source)],
       [name |-> "text_length", value |-> Whole(Len(news.title) + Len(news.description))] >>

\* LTRNewsRAGSystem._calculate_bm25_approx
LTR_calculate_bm25_approx(query, news) ==
    LET query_words == SeqRange(Split(Lower(query)))
        text == Lower(JoinBlank(news.title, news.description))
        matches == Cardinality({ word \in query_words : Contains(text, word) })
    IN  IF query_words # {} THEN Frac(matches, Cardinality(query_words)) ELSE Whole(0)

\* _calculate_ner_overlap dividing by the number of the query's entities.
LTR_calculate_ner_overlap_OverQuery(query, stored) ==
    LET query_ner_set == { Lower(e) : e \in ExtractFromNews(query) }
        news_ner_set == { Lower(e) : e \in { x \in stored : x # <<>> } }
        intersection == query_ner_set \cap news_ner_set
    IN  IF query_ner_set = {} THEN Whole(0)
        ELSE IF news_ner_set = {} THEN Whole(0)
        ELSE Frac(Cardinality(intersection), Cardinality(query_ner_set))

\* LTRNewsRAGSystem._calculate_ner_overlap; `stored` is the result of SELECT
\* normalized_text FROM entities WHERE news_id = ?, empty values dropped.
LTR_calculate_ner_overlap(query, stored) ==
    LET query_ner_set == { Lower(e) : e \in ExtractFromNews(query) }
        news_ner_set == { Lower(e) : e \in { x \in stored : x # <<>> } }
        intersection == query_ner_set \cap news_ner_set
        union == query_ner_set \cup news_ner_set
    IN  IF query_ner_set = {} THEN Whole(0)
        ELSE IF news_ner_set = {} THEN Whole(0)
        ELSE Frac(Cardinality(intersection), Cardinality(union))

\* LTRNewsRAGSystem._calculate_morpho_match
LTR_calculate_morpho_match(query, news) ==
    LET query_words == Split(Lower(query))
        text == Lower(JoinBlank(news.title, news.description))
        matches == Cardinality({ i \in 1..Len(query_words) :
                        \/ Contains(text, NormalForm(query_words[i]))
                        \/ Contains(text, query_words[i]) })
    IN  IF query_words # <<>> THEN Frac(matches, Len(query_words)) ELSE Whole(0)

\* Mutant of LTR_calculate_title_match: the online side alone is changed to
\* the Jaccard similarity of the two word sets.
LTR_calculate_title_match_Jaccard(query, title) ==
    LET query_words == SeqRange(Split(Lower(query)))
        title_words == SeqRange(Split(Lower(title)))
    IN  IF query_words = {} THEN Whole(0)
        ELSE Frac(Cardinality(query_words \cap title_words),
                  Cardinality(query_words \cup title_words))

\* LTRNewsRAGSystem._calculate_title_match
LTR_calculate_title_match(query, title) ==
    LET query_words == SeqRange(Split(Lower(query)))
        title_words == SeqRange(Split(Lower(title)))
        matches == query_words \cap title_words
    IN  IF query_words = {} THEN Whole(0)
        ELSE Frac(Cardinality(matches), Cardinality(query_words))

\* LTRNewsRAGSystem._calculate_days_ago: the parser is chosen by the weekday prefix;
\* timedelta.days is the floor of the age in days.
LTR_calculate_days_ago(published, now) ==
    IF IsFalsy(published) THEN Whole(999)
    ELSE LET parsed == IF published.shape \in {"rfc_dow", "dow_text"}
                       THEN parsedate_to_datetime(published)
                       ELSE fromisoformat(published)
             delta == (now - parsed.t) \div 24
         IN  IF ~parsed.ok THEN Whole(999)
             ELSE Whole(IF delta > 0 THEN delta ELSE 0)

\* LTRNewsRAGSystem._get_source_authority
LTR_get_source_authority(source) ==
    IF source.high THEN Whole(1)
    ELSE IF source.medium THEN Frac(1, 2)
    ELSE Whole(0)

\* LTRNewsRAGSystem.calculate_features: the feature dictionary as the sequence
\* of its (name, value) items in insertion order.
LTR_calculate_features(query, news, stored, now) ==
    << [name |-> "embedding_score", value |-> news.similarity],
       [name |-> "bm25_score", value |-> LTR_calculate_bm25_approx(query, news)],
       [name |-> "ner_overlap", value |-> LTR_calculate_ner_overlap(query, stored)],
       [name |-> "morpho_match", value |-> LTR_calculate_morpho_match(query, news)],
       [name |-> "title_match", value |-> LTR_calculate_title_match(query, news.title)],
       [name |-> "exact_match",
        value |-> IF Contains(Lower(news.title), Lower(query)) THEN Whole(1) ELSE Whole(0)],
       [name |-> "days_ago", value |-> LTR_calculate_days_ago(news.published, now)],
       [name |-> "source_authority", value |-> LTR_get_source_authority(news.source)],
       [name |-> "text_length", value |-> Whole(Len(news.title) + Len(news.description))] >>

(***************************************************************************)
(* Feature specification: the same (query, candidate) pair goes through    *)
(* the offline and the online feature extraction at the same clock.        *)
(***************************************************************************)
QuerySamples ==
    { <<>>,
      <<"a">>,
      <<"a", "s">>,
      <<"a", " ", "a">>,
      <<"A", " ", "b">>,
      <<"A", "b", "s", " ", "b">>,
      <<" ", "b", " ">> }

TitleSamples ==
    { <<>>,
      <<"a">>,
      <<"A", " ", "b">>,
      <<"a", "s", " ", "b">>,
      <<"A", "b">>,
      <<"b", " ", "a", " ", "s">> }

DescriptionSamples == { <<>>, <<"b">>, <<"A", "b", "s">> }

SourceSamples ==
    { [high |-> TRUE, medium |-> FALSE], [high |-> FALSE, medium |-> TRUE],
      [high |-> TRUE, medium |-> TRUE], [high |-> FALSE, medium |-> FALSE] }

SimilaritySamples == {Whole(0), Frac(73, 100)}

StoredSamples ==
    { {}, {<<>>}, {<<"A", "b">>}, {<<"A", "b">>, <<"B">>}, {<<"a", "b">>, <<>>} }

FtTimestamps ==
    [shape : ParsableShapes, t : { ClockHour - a : a \in {-30, 10, 50, 1000} }]
        \cup [shape : UnparsableShapes, t : {0}]

NewsSamples ==
    [title : TitleSamples, description : DescriptionSamples, published : FtTimestamps,
     source : SourceSamples, similarity : SimilaritySamples]

FtInit ==
    /\ InIdle
    /\ EmIdle
    /\ MxIdle
    /\ RbIdle
    /\ TrIdle
    /\ SvIdle
    /\ SeIdle
    /\ ftQuery \in QuerySamples
    /\ ftNews \in NewsSamples
    /\ ftStored \in StoredSamples
    /\ ftNow = ClockHour
    /\ ftOffline = <<>>
    /\ ftOnline = <<>>

\* LTRDatasetGenerator.generate_candidates computes the features of a
\* candidate for the dataset.
GenerateFeatures ==
    /\ ftOffline = <<>>
    /\ ftOffline' = <<Gen_calculate_features(ftQuery, ftNews, ftStored, ftNow)>>
    /\ UNCHANGED <<ftQuery, ftNews, ftStored, ftNow, ftOnline>>
    /\ UNCHANGED notFt

\* LTRNewsRAGSystem.search_similar computes the features of a candidate
\* for scoring.
ScoreFeatures ==
    /\ ftOnline = <<>>
    /\ ftOnline' = <<LTR_calculate_features(ftQuery, ftNews, ftStored, ftNow)>>
    /\ UNCHANGED <<ftQuery, ftNews, ftStored, ftNow, ftOffline>>
    /\ UNCHANGED notFt

FtNext == GenerateFeatures \/ ScoreFeatures

SpecFeatures == FtInit /\ [][FtNext]_vars

FeatureNames ==
    << "embedding_score", "bm25_score", "ner_overlap", "morpho_match", "title_match",
       "exact_match", "days_ago", "source_authority", "text_length" >>

\* C2: for the same query, candidate record, stored entities and clock,
\* the offline and the online calculate_features return the same nine
\* feature names in the same order with equal values, element for element.
C2_OfflineEqualsOnline ==
    (ftOffline # <<>> /\ ftOnline # <<>>)
        => /\ Len(ftOffline[1]) = 9
           /\ Len(ftOnline[1]) = 9
           /\ \A i \in 1..9 :
                 /\ ftOffline[1][i].name = FeatureNames[i]
                 /\ ftOnline[1][i].name = FeatureNames[i]
                 /\ ftOffline[1][i].value = ftOnline[1][i].value

\* C2 witness: both extractions have run on a pair whose title holds a
\* word the query lacks, whose query names a stored entity and whose date
\* parses, so that the features are not all trivial.
C2_Witness ==
    /\ ftOffline # <<>>
    /\ ftOnline # <<>>
    /\ ftOnline[1][5].value = Frac(1, 2)
    /\ ftOnline[1][3].value.n > 0
    /\ ftOnline[1][7].value # Whole(999)

(***************************************************************************)
(* Search.  A row of the news table is a record with the fields id, title, *)
(* description, full_text, source, published, cosine (the cosine of its    *)
(* embedding with the query's embedding, in hundredths) and entities (the  *)
(* normalized_text values of its rows in the entities table).  Row i of    *)
(* the table has id i.                                                     *)
(***************************************************************************)
\* The bound of the widened candidate list and the widening factor in
\* LTRNewsRAGSystem.search_similar: min(100, top_k * 10).
CandidateCap == 100

WidenFactor == 10

Min(a, b) == IF a <= b THEN a ELSE b

Max(a, b) == IF a >= b THEN a ELSE b

\* The list whose i-th element is f[i], built once.
List(f) == f \o <<>>

\* Comparison of two floats held as fractions with positive denominators.
GtFrac(a, b) == a.n * b.d > b.n * a.d

\* The Python slice s[:k]: the first k elements, all but the last -k when
\* k is negative.
Slice(s, k) ==
    IF k >= 0
    THEN SubSeq(s, 1, Min(k, Len(s)))
    ELSE SubSeq(s, 1, Max(Len(s) + k, 0))

\* list.sort(key=..., reverse=True) and sorted(..., reverse=True): the
\* elements by decreasing key, elements with equal keys in their original
\* order.  key[i] is the key of s[i], a float held as a fraction.
StableSortDescending(s, key) ==
    LET n == Len(s)
        rank == List([i \in 1..n |->
                    1 + Cardinality({ j \in 1..(i - 1) : ~GtFrac(key[i], key[j]) })
                      + Cardinality({ j \in (i + 1)..n : GtFrac(key[j], key[i]) })])
    IN  List([r \in 1..n |-> s[CHOOSE i \in 1..n : rank[i] = r]])

\* key=lambda x: x['similarity'] of the vector search.
SimilarityKeys(items) == List([i \in 1..Len(items) |-> items[i].similarity])

\* Whether np.frombuffer(embedding_blob, dtype=np.float32) raises: it does
\* for the NULL of a row stored without embedding.
FrombufferRaises(row) == row.embedding = "missing"

\* Whether np.dot(query_embedding, news_embedding) raises: it does when
\* the stored vector has not the dimension of the query's, as the empty
\* blob and the vector of another model have.
DotRaises(row) == row.embedding \in {"empty", "wrong_dim"}

\* float(np.dot(q, e) / (norm(q) * norm(e))) of a stored vector of the
\* query's dimension: row.cosine hundredths, nan for the vector of norm 0.
Cosine(row) == IF row.embedding = "zero_norm" THEN NaN ELSE Frac(row.cosine, 100)

\* Whether the loop over the rows of the table raises in computing a
\* similarity.
VectorLoopRaises(corpus) ==
    \E i \in 1..Len(corpus) : FrombufferRaises(corpus[i]) \/ DotRaises(corpus[i])

\* results of NewsRAGSystem.search_similar before the sort: every row of
\* the table with its cosine similarity, in row order.
VectorResults(corpus) ==
    List([i \in 1..Len(corpus) |->
             [id |-> corpus[i].id,
              title |-> corpus[i].title,
              description |-> corpus[i].description,
              source |-> corpus[i].source,
              published |-> corpus[i].published,
              similarity |-> Cosine(corpus[i])]])

\* results.sort(key=lambda x: x['similarity'], reverse=True); return results[:top_k]
VectorTopK(results, top_k) ==
    Slice(StableSortDescending(results, SimilarityKeys(results)), top_k)

\* NewsRAGSystem.search_similar(query, top_k): every row of the table with
\* its cosine similarity, by decreasing similarity, cut to top_k; nothing
\* when get_embedding returns None.  Defined for the calls that do not
\* raise.
NewsRAGSystem_search_similar(corpus, embedding, top_k) ==
    IF ~embedding THEN <<>> ELSE VectorTopK(VectorResults(corpus), top_k)

\* Whether NewsRAGSystem.search_similar raises; so does then
\* LTRNewsRAGSystem.search_similar, which calls it first and catches
\* nothing.
SearchSimilarRaises(corpus, embedding) == embedding /\ VectorLoopRaises(corpus)

\* features[col] for a feature dictionary held as its items.
FeatureValue(features, col) ==
    features[CHOOSE i \in 1..Len(features) : features[i].name = col].value

\* LGBMRanker.predict(X) of a fitted model.  The models sampled are the
\* rankers that split on one column of the training matrix: the score of
\* a row is its value in that column, negated for a model that ranks low
\* values first.
Predict(model, X) ==
    List([i \in 1..Len(X) |->
        [n |-> model.sign * X[i][model.column].n, d |-> X[i][model.column].d]])

\* key=lambda x: x['ltr_score']
LtrScoreKeys(items) == List([i \in 1..Len(items) |-> items[i].ltr_score[1]])

\* LTRNewsRAGSystem.search_similar(query, top_k), step 1: the widened
\* candidates, from the parent class.
LTR_candidates(corpus, embedding, top_k) ==
    NewsRAGSystem_search_similar(corpus, embedding, Min(CandidateCap, top_k * WidenFactor))

\* One row of X taken from the features in the order calculate_features
\* produced them.
FeatureRow_Positional(feature_columns, features) ==
    List([c \in 1..Len(feature_columns) |-> features[c].value])

\* One row of X: the features of a candidate in the order of
\* self.feature_columns.
FeatureRow(feature_columns, features) ==
    List([c \in 1..Len(feature_columns) |-> FeatureValue(features, feature_columns[c])])

\* features_list: calculate_features of every candidate, as rows of X.
FeaturesList(artifact, query, corpus, now, candidates) ==
    List([i \in 1..Len(candidates) |->
             FeatureRow(artifact.feature_columns,
                        LTR_calculate_features(query, candidates[i],
                                               corpus[candidates[i].id].entities, now))])

\* news['ltr_score'] = float(ltr_scores[i]) for every candidate.
WithLtrScores(candidates, ltr_scores) ==
    List([i \in 1..Len(candidates) |->
             [id |-> candidates[i].id,
              title |-> candidates[i].title,
              description |-> candidates[i].description,
              source |-> candidates[i].source,
              published |-> candidates[i].published,
              similarity |-> candidates[i].similarity,
              ltr_score |-> <<ltr_scores[i]>>]])

\* LTRNewsRAGSystem.search_similar(query, top_k), steps 2 and 3: each
\* candidate with the score the model gives its feature vector.
LTR_scored(artifact, query, corpus, now, candidates) ==
    WithLtrScores(candidates,
                  Predict(artifact.ltr_model,
                          FeaturesList(artifact, query, corpus, now, candidates)))

\* candidates.sort(key=lambda x: x['ltr_score'], reverse=True); return candidates[:top_k]
LtrTopK(scored, top_k) == Slice(StableSortDescending(scored, LtrScoreKeys(scored)), top_k)

\* LTRNewsRAGSystem.search_similar(query, top_k), from the candidates on:
\* nothing without candidates; otherwise the scored candidates by
\* decreasing model score, cut to top_k.
LTRNewsRAGSystem_search_similar(artifact, query, corpus, now, top_k, candidates) ==
    IF candidates = <<>> THEN <<>>
    ELSE LtrTopK(LTR_scored(artifact, query, corpus, now, candidates), top_k)

(***************************************************************************)
(* hybrid_search_internal.  Scores are exact fractions; the raw keyword    *)
(* score is held in two-hundredths (position weights doubled, each of the  *)
(* two boosts in tenths).                                                  *)
(***************************************************************************)
\* The stop words of hybrid_search_internal that can be written in the
\* model's alphabet: none.
StopWords == {}

\* expand_query(query): none of the phrase or word synonym keys can be
\* written in the model's alphabet, so the result is the set of the
\* lower-cased words of the query.
expand_query(query) == SeqRange(Split(Lower(query)))

\* keywords = [k for k in expanded_keywords if k not in stop_words and len(k) > 2]
Keywords(query) == { k \in expand_query(query) : k \notin StopWords /\ Len(k) > 2 }

\* The orders in which the list made from a set can hold its elements.
Orderings(S) ==
    { q \in [1..Cardinality(S) -> S] : \A i, j \in DOMAIN q : q[i] = q[j] => i = j }

\* query_ner_normalized: the lower-cased normalized entities of the query.
QueryNerNormalized(query) == { Lower(e) : e \in ExtractFromNews(query) }

\* word_in_text(word, text): re.search(r'\b' + word.lower() + r'\b',
\* text.lower()), for a word of letters: an occurrence with no letter
\* right before it and none right after it.
word_in_text(word, text) ==
    LET w == Lower(word)
        t == Lower(text)
    IN  \E i \in 0..(Len(t) - Len(w)) :
            /\ \A j \in 1..Len(w) : t[i + j] = w[j]
            /\ (i = 0 \/ t[i] = " ")
            /\ (i + Len(w) = Len(t) \/ t[i + Len(w) + 1] = " ")

\* get_word_forms(word): the lower-cased word and the lower-cased forms of
\* its lexeme, which are the lemma and the lemma with the inflection "s".
get_word_forms(word) ==
    { Lower(word), NormalForm(word), NormalForm(word) \o <<"s">> }

\* The SELECT of one keyword: the rows where some form of the word occurs
\* in title, description or full_text under LIKE, which ignores the case
\* of these letters, so that the three casings of a form select alike.
LikeSelected(word_forms, row) ==
    \E form \in word_forms :
        \/ Contains(Lower(row.title), Lower(form))
        \/ Contains(Lower(row.description), Lower(form))
        \/ Contains(Lower(row.full_text), Lower(form))

FoundIn(word_forms, text) == \E form \in word_forms : word_in_text(form, text)

\* Whether the loop over the selected rows keeps the row for the keyword.
KeywordMatches(keyword, row) ==
    LET word_forms == get_word_forms(keyword)
    IN  /\ LikeSelected(word_forms, row)
        /\ \/ FoundIn(word_forms, row.title)
           \/ FoundIn(word_forms, row.description)
           \/ FoundIn(word_forms, row.full_text)

\* position_weight that counts the title and the description only.
PositionWeight_WithoutFullText(keyword, row, query_ner_normalized) ==
    LET word_forms == get_word_forms(keyword)
        is_phrase == \E i \in 1..Len(keyword) : keyword[i] = " "
        title_weight == IF is_phrase THEN 20 ELSE 10
        desc_weight == IF is_phrase THEN 6 ELSE 3
        ner_multiplier == IF Lower(keyword) \in query_ner_normalized THEN 5 ELSE 1
    IN  (IF FoundIn(word_forms, row.title) THEN title_weight * ner_multiplier ELSE 0)
      + (IF FoundIn(word_forms, row.description) THEN desc_weight * ner_multiplier ELSE 0)

\* position_weight of one keyword in one row, doubled.
PositionWeight(keyword, row, query_ner_normalized) ==
    LET word_forms == get_word_forms(keyword)
        is_phrase == \E i \in 1..Len(keyword) : keyword[i] = " "
        title_weight == IF is_phrase THEN 20 ELSE 10
        desc_weight == IF is_phrase THEN 6 ELSE 3
        text_weight == IF is_phrase THEN 4 ELSE 2
        ner_multiplier == IF Lower(keyword) \in query_ner_normalized THEN 5 ELSE 1
    IN  (IF FoundIn(word_forms, row.title) THEN title_weight * ner_multiplier ELSE 0)
      + (IF FoundIn(word_forms, row.description) THEN desc_weight * ner_multiplier ELSE 0)
      + (IF FoundIn(word_forms, row.full_text) THEN text_weight * ner_multiplier ELSE 0)

\* The row numbers of a set, in row order: the order in which the rows of
\* a SELECT are fetched.
Ascending(S) ==
    List([r \in 1..Cardinality(S) |->
             CHOOSE x \in S : Cardinality({ y \in S : y < x }) = r - 1])

\* One pass of the loop `for keyword in keywords` over keyword_results,
\* held as the ids in insertion order (ids) and the keyword_score
\* accumulated so far (score, by row): the keyword adds its position
\* weight to every row it matches; rows matched for the first time are
\* inserted in row order.
KeywordStep(keyword, corpus, query_ner_normalized, results) ==
    LET matched == { i \in 1..Len(corpus) : KeywordMatches(keyword, corpus[i]) }
        fresh == Ascending(matched \ SeqRange(results.ids))
    IN  [ids |-> results.ids \o fresh,
         score |-> List([i \in 1..Len(corpus) |->
                      results.score[i]
                        + IF i \in matched
                          THEN PositionWeight(keyword, corpus[i], query_ner_normalized)
                          ELSE 0])]

\* The loop `for keyword in keywords`.
RECURSIVE KeywordLoop(_, _, _, _)
KeywordLoop(keywords, corpus, query_ner_normalized, results) ==
    IF keywords = <<>> THEN results
    ELSE KeywordLoop(Tail(keywords), corpus, query_ner_normalized,
                     KeywordStep(Head(keywords), corpus, query_ner_normalized, results))

\* multi_match_boost in tenths: 1.0 + (matched_in_title - 1) * 0.3 when at
\* least two keywords are found in the title, no boost otherwise.
MultiMatchBoost(keywords, title) ==
    LET matched_in_title ==
            Cardinality({ k \in 1..Len(keywords) :
                            FoundIn(get_word_forms(keywords[k]), title) })
    IN  IF matched_in_title >= 2 THEN 10 + (matched_in_title - 1) * 3 ELSE 10

\* ner_match_boost in tenths: 1.0 + ner_matches * 0.4, where ner_matches is
\* COUNT(DISTINCT normalized_text) over the row's entities whose LOWER is
\* an entity of the query; no boost without query entities or matches.
NerMatchBoost(query_ner_normalized, entities) ==
    LET ner_matches == Cardinality({ e \in entities : Lower(e) \in query_ner_normalized })
    IN  IF query_ner_normalized # {} /\ ner_matches > 0 THEN 10 + ner_matches * 4 ELSE 10

SeqMax(s) == CHOOSE m \in SeqRange(s) : \A x \in SeqRange(s) : x <= m

\* keyword_results after the two boost loops: every keyword_score times
\* its multi-match boost and its entity-match boost.
BoostedResults(results, keywords, corpus, query_ner_normalized) ==
    [ids |-> results.ids,
     score |-> List([i \in 1..Len(corpus) |->
                  results.score[i]
                    * MultiMatchBoost(keywords, corpus[i].title)
                    * NerMatchBoost(query_ner_normalized, corpus[i].entities)])]

\* max_keyword_score: the greatest keyword_score, 1 (200 two-hundredths)
\* when no row matched.
MaxKeywordScore(results) ==
    IF results.ids # <<>>
    THEN SeqMax(List([k \in 1..Len(results.ids) |-> results.score[results.ids[k]]]))
    ELSE 200

\* base_score: 0.85 * keyword_score + 0.15 * vector_score for a positive
\* keyword score, the vector score otherwise.
BaseScore(keyword_score, vector_score) ==
    IF keyword_score.n > 0
    THEN FAdd(FScale(85, 100, keyword_score), FScale(15, 100, vector_score))
    ELSE vector_score

\* One entry of combined_results with its final score: the normalized
\* keyword score, the vector score (0 without vector results), the
\* recency multiplier (in hundredths) and base_score * recency_boost.
FusedItem(row, keyword_score, max_keyword_score, embedding, now) ==
    LET normalized == IF max_keyword_score > 0
                      THEN Frac(keyword_score, max_keyword_score)
                      ELSE Whole(0)
        vector_score == IF embedding THEN Cosine(row) ELSE Whole(0)
        recency_boost == calculate_recency_boost(row.published, now).value
    IN  [id |-> row.id,
         keyword_score |-> normalized,
         vector_score |-> vector_score,
         recency_boost |-> recency_boost,
         similarity |-> FScale(recency_boost, 100, BaseScore(normalized, vector_score))]

\* combined_results with the rows that only the vector search found added
\* after the keyword results, with keyword score 0.
Combined_WithVectorOnly(results, max_keyword_score, corpus, embedding, now) ==
    List([k \in 1..Len(results.ids) |->
             FusedItem(corpus[results.ids[k]], results.score[results.ids[k]],
                       max_keyword_score, embedding, now)])
    \o (IF embedding
        THEN SelectSeq(List([i \in 1..Len(corpus) |->
                                FusedItem(corpus[i], 0, max_keyword_score, embedding, now)]),
                       LAMBDA item : item.id \notin SeqRange(results.ids))
        ELSE <<>>)

\* combined_results, in the insertion order of keyword_results.
Combined(results, max_keyword_score, corpus, embedding, now) ==
    List([k \in 1..Len(results.ids) |->
             FusedItem(corpus[results.ids[k]], results.score[results.ids[k]],
                       max_keyword_score, embedding, now)])

\* key=lambda x: x['similarity'] of the fused results.
FusedKeys(items) == List([i \in 1..Len(items) |-> items[i].similarity])

\* sorted(combined_results.values(), key=..., reverse=True)[:top_k]
FusedTopK(items, top_k) == Slice(StableSortDescending(items, FusedKeys(items)), top_k)

\* The fusion of hybrid_search_internal from keyword_results on.
Fusion(results, corpus, embedding, now, top_k) ==
    FusedTopK(Combined(results, MaxKeywordScore(results), corpus, embedding, now), top_k)

\* hybrid_search_internal(query, top_k) with the keyword list in the given
\* order: the rows some keyword matches, each with its normalized keyword
\* score, its vector score, its recency multiplier and its fused score,
\* by decreasing fused score, cut to top_k.  Defined for the calls that do
\* not raise.
hybrid_search_internal(keywords, query, corpus, embedding, now, top_k) ==
    Fusion(BoostedResults(
               KeywordLoop(keywords, corpus, QueryNerNormalized(query),
                           [ids |-> <<>>, score |-> List([i \in 1..Len(corpus) |-> 0])]),
               keywords, corpus, QueryNerNormalized(query)),
           corpus, embedding, now, top_k)

\* Whether hybrid_search_internal raises: in the keyword loop, which
\* rebuilds the stored vector of every row it keeps, or in the loop over
\* all rows that computes the vector scores when the query has an
\* embedding.
HybridRaises(keywords, corpus, embedding) ==
    \/ \E k \in 1..Len(keywords) : \E i \in 1..Len(corpus) :
          KeywordMatches(keywords[k], corpus[i]) /\ FrombufferRaises(corpus[i])
    \/ embedding /\ VectorLoopRaises(corpus)

(***************************************************************************)
(* Search specification: one /search request and one call of               *)
(* hybrid_search_internal on the same query, corpus, clock and top_k.      *)
(***************************************************************************)
\* Longest corpus of which every composition is sampled.
MaxDocs == 3

\* How many rows the long corpora have beyond a candidate limit.
Spill == 2

SearchQueries ==
    { <<"a", "b", "a">>,
      <<"A", "b", "a", " ", "b", "a", "b">>,
      <<"b">> }

TopKSamples == {-1, 0, 1, 2, CandidateCap \div WidenFactor + 1}

RowSamples ==
    { [title |-> <<"A", "b", "a", " ", "b", "a", "b">>, description |-> <<"a", "b", "a">>,
       full_text |-> <<>>, cosine |-> 60, embedding |-> "ok",
       published |-> [shape |-> "rfc_dow", t |-> ClockHour - 10],
       entities |-> {<<"A", "b", "a">>}, source |-> [high |-> TRUE, medium |-> FALSE]],
      [title |-> <<"b">>, description |-> <<"a", "b", "a", "s">>,
       full_text |-> <<"b", "a", "b">>, cosine |-> 80, embedding |-> "ok",
       published |-> [shape |-> "iso", t |-> ClockHour - 50],
       entities |-> {}, source |-> [high |-> FALSE, medium |-> TRUE]],
      [title |-> <<"b", " ", "a">>, description |-> <<>>,
       full_text |-> <<>>, cosine |-> 90, embedding |-> "ok",
       published |-> [shape |-> "none", t |-> 0],
       entities |-> {}, source |-> [high |-> FALSE, medium |-> FALSE]],
      [title |-> <<"b", "a", "b">>, description |-> <<>>,
       full_text |-> <<>>, cosine |-> -10, embedding |-> "ok",
       published |-> [shape |-> "garbage", t |-> 0],
       entities |-> {<<"a", "b", "a">>}, source |-> [high |-> FALSE, medium |-> FALSE]] }

\* A row whose only lexical match is in its full text and whose stored
\* vector points away from the query's.
OpposedRow ==
    [title |-> <<"b">>, description |-> <<>>,
     full_text |-> <<"b", "a", "b">>, cosine |-> -90, embedding |-> "ok",
     published |-> [shape |-> "iso", t |-> ClockHour - 50],
     entities |-> {}, source |-> [high |-> FALSE, medium |-> FALSE]]

\* What the embedding column of a row can hold besides a vector of the
\* model's dimension and positive norm: a vector of norm 0, a vector of
\* another model's dimension, an empty blob, NULL.
StoredFaults == {"zero_norm", "wrong_dim", "empty", "missing"}

\* Rows with such an embedding: one that the sampled queries match
\* lexically and one that no query matches.
FaultyRows ==
    { [r EXCEPT !.embedding = fault] :
        r \in { x \in RowSamples : x.cosine \in {60, 90} }, fault \in StoredFaults }

\* The news table holding the given rows, in this order: row i has id i.
Table(rows) == List([i \in 1..Len(rows) |-> [id |-> i] @@ rows[i]])

\* A table of n rows that repeats the given rows.
Cycle(rows, n) == Table(List([i \in 1..n |-> rows[((i - 1) % Len(rows)) + 1]]))

SmallCorpora == { Table(rows) : rows \in UNION { [1..n -> RowSamples] : n \in 0..MaxDocs } }

\* Corpora longer than the widened candidate list of top_k = 1, and one
\* longer than the candidate cap; each alternates a row with a row of
\* clearly lower cosine.
LongCorpora ==
    { Cycle(rows, WidenFactor + Spill) :
        rows \in { r \in [1..2 -> RowSamples] : r[1].cosine > r[2].cosine + 20 } }
    \cup
    { Cycle(rows, CandidateCap + Spill) :
        rows \in { r \in [1..2 -> RowSamples] : r[1].cosine >= r[2].cosine + 100 } }

\* Tables with one opposed or faulty row, alone, before or after one other
\* row.
AdverseCorpora ==
    { Table(<<x>>) : x \in {OpposedRow} \cup FaultyRows }
    \cup { Table(<<x, r>>) : x \in {OpposedRow} \cup FaultyRows, r \in RowSamples }
    \cup { Table(<<r, x>>) : x \in {OpposedRow} \cup FaultyRows, r \in RowSamples }

\* Two rows that differ in where they match the query "Aba bab": the first
\* holds "aba" in its full text only, the second "bab" in its title only,
\* which gives them the same keyword score; they agree in everything else.
TiedRows ==
    << [title |-> <<"b">>, description |-> <<>>,
        full_text |-> <<"a", "b", "a">>, cosine |-> -10, embedding |-> "ok",
        published |-> [shape |-> "garbage", t |-> 0],
        entities |-> {<<"a", "b", "a">>}, source |-> [high |-> FALSE, medium |-> FALSE]],
       [title |-> <<"b", "a", "b">>, description |-> <<>>,
        full_text |-> <<>>, cosine |-> -10, embedding |-> "ok",
        published |-> [shape |-> "garbage", t |-> 0],
        entities |-> {<<"a", "b", "a">>}, source |-> [high |-> FALSE, medium |-> FALSE]] >>

\* The table of the two tied rows, and the table of the two and a third row.
TiedCorpora == { Table(TiedRows) } \cup { Table(TiedRows \o <<r>>) : r \in RowSamples }

Reverse(s) == [i \in 1..Len(s) |-> s[Len(s) + 1 - i]]

ColumnOf(feature_columns, name) ==
    CHOOSE c \in 1..Len(feature_columns) : feature_columns[c] = name

\* The artifacts sampled: {'model', 'feature_columns'} of a ranker that
\* ranks by title_match, trained on the columns in the order of
\* calculate_features, and of a ranker that ranks fresh documents first,
\* trained on the columns in the opposite order.
Artifacts ==
    { [feature_columns |-> FeatureNames,
       ltr_model |-> [column |-> ColumnOf(FeatureNames, "title_match"), sign |-> 1]],
      [feature_columns |-> Reverse(FeatureNames),
       ltr_model |-> [column |-> ColumnOf(Reverse(FeatureNames), "days_ago"), sign |-> -1]] }

SeInit ==
    /\ InIdle
    /\ EmIdle
    /\ MxIdle
    /\ RbIdle
    /\ TrIdle
    /\ SvIdle
    /\ FtIdle
    /\ seQuery \in SearchQueries
    /\ seTopK \in TopKSamples
    /\ seCorpus \in SmallCorpora \cup LongCorpora \cup AdverseCorpora \cup TiedCorpora
    /\ seNow = ClockHour
    /\ seEmbedding \in BOOLEAN
    /\ seArtifact \in {<<>>} \cup { <<a>> : a \in Artifacts }
    /\ seCandidates = <<>>
    /\ seResponse = <<>>
    /\ seFusion = <<>>
    /\ seOthers = 0

\* item.get('ltr_score', None), None being <<>>.
GetLtrScore(item) == IF "ltr_score" \in DOMAIN item THEN item.ltr_score ELSE <<>>

\* news_items of search_news: one NewsItem for each result, in order.
Response(results) ==
    List([i \in 1..Len(results) |->
             [id |-> results[i].id,
              similarity |-> results[i].similarity,
              ltr_score |-> GetLtrScore(results[i])]])

\* The SearchResponse of search_news.
Answer(results) == [status |-> 200, news |-> Response(results)]

\* HTTPException(status_code=500, ...), raised by search_news for every
\* exception of the search.
SearchError == [status |-> 500, news |-> <<>>]

\* search_news for the request: it calls rag.search_similar, of the class
\* the global rag has, and answers with the items in the order returned,
\* or with status 500 when the search raises.  The clock is read by
\* _calculate_days_ago.
SearchOutcome ==
    IF SearchSimilarRaises(seCorpus, seEmbedding)
    THEN SearchError
    ELSE Answer(
             IF seArtifact = <<>>
             THEN NewsRAGSystem_search_similar(seCorpus, seEmbedding, seTopK)
             ELSE LTRNewsRAGSystem_search_similar(
                      seArtifact[1], seQuery, seCorpus, seNow, seTopK,
                      LTR_candidates(seCorpus, seEmbedding, seTopK)))

\* The widened candidates of the request, when a model is loaded.
CandidatesOutcome ==
    IF seArtifact = <<>> \/ SearchSimilarRaises(seCorpus, seEmbedding) THEN <<>>
    ELSE << LTR_candidates(seCorpus, seEmbedding, seTopK) >>

\* POST /search, the first time the request is made.
SearchNews ==
    /\ seResponse = <<>>
    /\ seCandidates' = CandidatesOutcome
    /\ seResponse' = << SearchOutcome >>
    /\ UNCHANGED <<seQuery, seTopK, seCorpus, seNow, seEmbedding, seArtifact, seFusion,
                   seOthers>>
    /\ UNCHANGED notSe

\* A call of hybrid_search_internal(query, top_k); the list made from the
\* set of expanded keywords holds them in an order the code does not fix.
HybridSearch ==
    /\ seFusion = <<>>
    /\ \E keywords \in Orderings(Keywords(seQuery)) :
          seFusion' =
             IF HybridRaises(keywords, seCorpus, seEmbedding)
             THEN << [raised |-> TRUE, results |-> <<>>] >>
             ELSE << [raised |-> FALSE,
                      results |-> hybrid_search_internal(keywords, seQuery, seCorpus,
                                                         seEmbedding, seNow, seTopK)] >>
    /\ UNCHANGED <<seQuery, seTopK, seCorpus, seNow, seEmbedding, seArtifact,
                   seCandidates, seResponse, seOthers>>
    /\ UNCHANGED notSe

SeNext == SearchNews \/ HybridSearch

SpecSearch == SeInit /\ [][SeNext]_vars

Ids(items) == [i \in 1..Len(items) |-> items[i].id]

\* C1: with no artifact loaded, the documents the /search handler returns
\* are, in the same order, the documents hybrid_search_internal produces
\* for the same query, corpus and top_k.
C1_SearchEqualsFusion ==
    (seArtifact = <<>> /\ seResponse # <<>> /\ seFusion # <<>>)
        => Ids(seResponse[1].news) = Ids(seFusion[1].results)

\* The ids of the first n rows of the base ranking (none for n <= 0).
FirstBaseRanked(n) ==
    LET ranked == NewsRAGSystem_search_similar(seCorpus, seEmbedding, Len(seCorpus))
    IN  { ranked[i].id : i \in 1..Min(Max(n, 0), Len(ranked)) }

\* What C8 states of a response to a request with top_k = k.
RerankedWithin(news, k) ==
    /\ Len(news) <= Max(k, 0)
    /\ { news[i].id : i \in 1..Len(news) }
          \subseteq FirstBaseRanked(Min(CandidateCap, k * WidenFactor))
    /\ \A i \in 1..Len(news) : news[i].ltr_score # <<>>
    /\ \A i \in 1..Len(news) : \A j \in (i + 1)..Len(news) :
          ~GtFrac(news[j].ltr_score[1], news[i].ltr_score[1])

\* C8: with a model loaded, the response to search(query, top_k) has at
\* most top_k documents, each of them among the first min(100, top_k * 10)
\* documents of the base ranking and carrying its model score, in
\* non-increasing order of model score.
C8_RerankedTopK ==
    (seArtifact # <<>> /\ seResponse # <<>>) => RerankedWithin(seResponse[1].news, seTopK)

\* The statement of C8 for the requests whose top_k is not negative.
RerankedTopKNonNegative ==
    (seArtifact # <<>> /\ seResponse # <<>> /\ seTopK >= 0)
        => RerankedWithin(seResponse[1].news, seTopK)

\* A reranked response that was cut from a candidate list, itself cut
\* from a longer corpus by the candidate cap.
RerankedTopKReached ==
    /\ seArtifact # <<>>
    /\ seResponse # <<>>
    /\ seTopK > 0
    /\ Len(seResponse[1].news) = seTopK
    /\ Len(seCandidates[1]) = CandidateCap
    /\ Len(seCorpus) > CandidateCap
    /\ \E i \in 1..Len(seResponse[1].news) : seResponse[1].news[i].id # seCandidates[1][i].id

\* C11: every fused score attached to a document that
\* hybrid_search_internal returns is a finite number and is not negative,
\* whatever the cosine similarity and the norm of the stored embedding.
C11_FusedScoresFiniteNonNegative ==
    seFusion # <<>> =>
        \A i \in 1..Len(seFusion[1].results) :
            /\ IsFinite(seFusion[1].results[i].similarity)
            /\ seFusion[1].results[i].similarity.n >= 0

\* The part of C11 about finiteness alone.
FusedScoresFinite ==
    seFusion # <<>> =>
        \A i \in 1..Len(seFusion[1].results) : IsFinite(seFusion[1].results[i].similarity)

\* The part of C11 about the sign, for the scores that are numbers.
FusedScoresNonNegative ==
    seFusion # <<>> =>
        \A i \in 1..Len(seFusion[1].results) : seFusion[1].results[i].similarity.n >= 0

\* No keyword of the query matches any row of the table.
NoLexicalMatch ==
    \A k \in Keywords(seQuery) : \A i \in 1..Len(seCorpus) : ~KeywordMatches(k, seCorpus[i])

\* keyword_results of hybrid_search_internal after the boosts, for the
\* keyword list in the given order.
KeywordResults(keywords) ==
    BoostedResults(
        KeywordLoop(keywords, seCorpus, QueryNerNormalized(seQuery),
                    [ids |-> <<>>, score |-> List([i \in 1..Len(seCorpus) |-> 0])]),
        keywords, seCorpus, QueryNerNormalized(seQuery))

\* The normalization divides by a positive number.
DivisorPositive ==
    \A keywords \in Orderings(Keywords(seQuery)) :
        MaxKeywordScore(KeywordResults(keywords)) > 0

LexicalHit(i) == \E k \in Keywords(seQuery) : KeywordMatches(k, seCorpus[i])

\* C13: every document the fusion returns has a keyword score strictly
\* greater than 0 and a lexical hit; a document that matches the query
\* only semantically is not returned.
C13_ReturnedHaveLexicalScore ==
    seFusion # <<>> =>
        \A i \in 1..Len(seFusion[1].results) :
            /\ seFusion[1].results[i].keyword_score.n > 0
            /\ seFusion[1].results[i].keyword_score.d > 0
            /\ LexicalHit(seFusion[1].results[i].id)

\* A fusion that returned a document, with room for more, and left out a
\* row without lexical hit whose vector score is higher than the returned
\* document's.
C13_Witness ==
    /\ seFusion # <<>>
    /\ seEmbedding
    /\ seFusion[1].results # <<>>
    /\ Len(seFusion[1].results) < seTopK
    /\ \E j \in 1..Len(seCorpus) :
          /\ ~LexicalHit(j)
          /\ \A i \in 1..Len(seFusion[1].results) :
                /\ seFusion[1].results[i].id # j
                /\ GtFrac(Cosine(seCorpus[j]), seFusion[1].results[i].vector_score)

\* The rows of the table whose embedding is missing, empty or of another
\* dimension than the query's.
BadEmbeddingRows ==
    { i \in 1..Len(seCorpus) : seCorpus[i].embedding \in {"missing", "empty", "wrong_dim"} }

\* C14: with one document of the store having a missing, empty or
\* wrong-dimension embedding, a search request completes, and so does the
\* fusion; the vector search leaves that document out and returns the
\* other documents.
C14_BadEmbeddingTolerated ==
    Cardinality(BadEmbeddingRows) = 1 =>
        /\ seResponse # <<>> =>
              /\ seResponse[1].status = 200
              /\ \A i \in 1..Len(seResponse[1].news) :
                    seResponse[1].news[i].id \notin BadEmbeddingRows
              /\ (seEmbedding /\ seTopK >= Len(seCorpus))
                    => Len(seResponse[1].news) = Len(seCorpus) - 1
        /\ seFusion # <<>> => ~seFusion[1].raised

\* The part of C14 that the code keeps: a search whose table has only
\* embeddings of the query's dimension, or whose query has no embedding
\* and meets no row stored without one, completes.
SearchCompletesOnSoundStore ==
    /\ (seResponse # <<>> /\ (BadEmbeddingRows = {} \/ ~seEmbedding))
          => seResponse[1].status = 200
    /\ (seFusion # <<>> /\ BadEmbeddingRows = {}) => ~seFusion[1].raised

\* The two entity sets _calculate_ner_overlap compares: the lower-cased
\* normalized entities of the query and of the stored document.
QueryEntitySet == { Lower(e) : e \in ExtractFromNews(ftQuery) }

StoredEntitySet == { Lower(e) : e \in ftStored \ {<<>>} }

\* |A n B| / |A u B| of two sets that are not both empty.
Jaccard(A, B) == Frac(Cardinality(A \cap B), Cardinality(A \cup B))

\* The ner_overlap feature of every extraction that has run.
NerOverlaps ==
    { f[1][3].value : f \in { x \in {ftOffline, ftOnline} : x # <<>> } }

\* C15 as stated: the entity overlap of an entity set against itself is
\* exactly 1.0, the empty set included, and in general the overlap is
\* |A n B| / |A u B| of the two lower-cased normalized entity sets.
C15_SelfOverlapIsOne ==
    \A v \in NerOverlaps :
        /\ QueryEntitySet = StoredEntitySet => v = Whole(1)
        /\ QueryEntitySet \cup StoredEntitySet # {}
              => v = Jaccard(QueryEntitySet, StoredEntitySet)

\* C15 amended: the overlap is 0.0 when either entity set is empty, and
\* |A n B| / |A u B| otherwise; so the overlap of a non-empty entity set
\* against itself is exactly 1.0, and that of the empty set is 0.0.
C15_OverlapJaccardOrZero ==
    \A v \in NerOverlaps :
        /\ (QueryEntitySet = {} \/ StoredEntitySet = {}) => v = Whole(0)
        /\ (QueryEntitySet # {} /\ StoredEntitySet # {})
              => v = Jaccard(QueryEntitySet, StoredEntitySet)
        /\ (QueryEntitySet = StoredEntitySet /\ QueryEntitySet # {}) => v = Whole(1)

\* Both extractions have computed the overlap of a non-empty entity set
\* against itself.
C15_Witness ==
    /\ ftOffline # <<>>
    /\ ftOnline # <<>>
    /\ QueryEntitySet # {}
    /\ QueryEntitySet = StoredEntitySet
    /\ NerOverlaps = {Whole(1)}

\* Both extractions have computed the overlap of the empty entity set
\* against itself.
EmptySelfOverlapReached ==
    /\ ftOffline # <<>>
    /\ ftOnline # <<>>
    /\ QueryEntitySet = {}
    /\ StoredEntitySet = {}
    /\ NerOverlaps = {Whole(0)}

(***************************************************************************)
(* Repeated search: the same /search request made twice, with other        *)
(* requests answered and time passing in between.                          *)
(***************************************************************************)
\* How many requests with another query are answered in between.
MaxOthers == 1

\* How many hours pass at most between the two calls.
MaxElapsed == 24

\* The steps in which the clock advances, in hours.
ElapsedSteps == {12, 24}

RpInit ==
    /\ SeInit
    /\ seCorpus \in SmallCorpora
    /\ seEmbedding

\* POST /search with the same query and top_k, a second time.
SearchAgain ==
    /\ Len(seResponse) = 1
    /\ seCandidates' = CandidatesOutcome
    /\ seResponse' = Append(seResponse, SearchOutcome)
    /\ UNCHANGED <<seQuery, seTopK, seCorpus, seNow, seEmbedding, seArtifact, seFusion,
                   seOthers>>
    /\ UNCHANGED notSe

\* POST /search with another query: search_similar reads the table and the
\* loaded model and writes neither.
OtherSearch ==
    /\ seOthers < MaxOthers
    /\ \E query \in SearchQueries \ {seQuery} : seOthers' = seOthers + 1
    /\ UNCHANGED <<seQuery, seTopK, seCorpus, seNow, seEmbedding, seArtifact,
                   seCandidates, seResponse, seFusion>>
    /\ UNCHANGED notSe

\* Time passes; datetime.now() reads the clock.
Tick ==
    /\ \E hours \in ElapsedSteps :
          /\ seNow + hours <= ClockHour + MaxElapsed
          /\ seNow' = seNow + hours
    /\ UNCHANGED <<seQuery, seTopK, seCorpus, seEmbedding, seArtifact,
                   seCandidates, seResponse, seFusion, seOthers>>
    /\ UNCHANGED notSe

RpNext == SearchNews \/ SearchAgain \/ OtherSearch \/ Tick

SpecRepeat == RpInit /\ [][RpNext]_vars

\* C16: two search calls with the same query, top_k, corpus and loaded
\* model return the same documents in the same order with the same
\* scores, whatever searches ran and however much time passed in between.
C16_RepeatedSearchIdentical ==
    Len(seResponse) = 2 => seResponse[1] = seResponse[2]

\* Without a loaded model the two responses are identical.
RepeatedBaseSearchIdentical ==
    (Len(seResponse) = 2 /\ seArtifact = <<>>) => seResponse[1] = seResponse[2]

\* The two responses hold the same documents, whatever their order and
\* scores.
RepeatedSearchSameDocuments ==
    Len(seResponse) = 2 =>
        { seResponse[1].news[i].id : i \in 1..Len(seResponse[1].news) }
            = { seResponse[2].news[i].id : i \in 1..Len(seResponse[2].news) }

(***************************************************************************)
(* Ingestion.  One batch of fetch_and_index_news_async and one /search     *)
(* request on the service's event loop.  An article is known by its        *)
(* content hash (key); the database is the set of the keys of the news     *)
(* rows (news), the set of the keys that a second news row holds (twice)   *)
(* and the set of the entity rows [key, idx].  Rows written by the         *)
(* batch's connection are visible to the other connections once committed. *)
(***************************************************************************)
\* How many entries a source's feed has at most.
MaxEntries == 2

\* How many entities extract_from_news finds in an article.
MaxEnts == 2

\* What becomes of an entry in process_single_article: it is processed
\* and embedded ("ok"), extract_rss_content raises ("raises"), it has no
\* title or link ("untitled"), or get_embedding_async returns None because
\* the model failed or raised ("no_embedding").
Fates == {"ok", "raises", "untitled", "no_embedding"}

\* The entries sampled.  ner tells whether extract_from_news raises in
\* save_entities for the article.
EntrySamples ==
    { [key |-> 1, fate |-> "ok", ner |-> "ok"],
      [key |-> 2, fate |-> "ok", ner |-> "raises"],
      [key |-> 3, fate |-> "ok", ner |-> "ok"],
      [key |-> 4, fate |-> "raises", ner |-> "ok"],
      [key |-> 5, fate |-> "no_embedding", ner |-> "ok"],
      [key |-> 6, fate |-> "untitled", ner |-> "ok"] }

\* The sources sampled: a feed that parses, with up to MaxEntries entries,
\* and a feed for which feedparser.parse raises.
FeedSamples ==
    { [feed |-> "ok", entries |-> e] :
        e \in UNION { [1..n -> EntrySamples] : n \in 0..MaxEntries } }
    \cup { [feed |-> "raises", entries |-> <<>>] }

\* The sources that follow: one with a single new article, one with an
\* article the first source can hold too, one empty.
LaterSources ==
    { [feed |-> "ok", entries |-> << [key |-> 7, fate |-> "ok", ner |-> "ok"] >>],
      [feed |-> "ok", entries |-> << [key |-> 3, fate |-> "ok", ner |-> "ok"] >>],
      [feed |-> "ok", entries |-> <<>>] }

\* load_sources(): the batches sampled.
Batches == { <<a, b>> : a \in FeedSamples, b \in LaterSources }

\* The entity rows save_entities writes for an article.
EntityRows(key) == { [key |-> key, idx |-> i] : i \in 1..MaxEnts }

\* The stores a batch can start from: empty, or holding article 1.
StartStores ==
    { [news |-> {}, entities |-> {}, twice |-> {}],
      [news |-> {1}, entities |-> EntityRows(1), twice |-> {}] }

NoRows == [news |-> {}, entities |-> {}, twice |-> {}]

\* What the batch's connection reads: the committed rows and its own.
BatchView == [news |-> dbStore.news \cup txStore.news,
              entities |-> dbStore.entities \cup txStore.entities,
              twice |-> dbStore.twice \cup txStore.twice]

\* A news table whose hash column carries no constraint.
UniqueViolated_NoConstraint(key, table) == FALSE

\* hash TEXT UNIQUE: an INSERT whose hash a row of the table holds raises
\* sqlite3.IntegrityError.  The batch writes the content hash to both the
\* hash and the content_hash column.
UniqueViolated(key, table) == key \in table.news

\* conn.commit() on the batch's connection.
Committed == BatchView

\* process_single_article(entry, ...): the exception extract_rss_content
\* raises, None for an entry without title or link, for a content hash
\* that the table holds and for an embedding that is None, otherwise the
\* row to insert.
process_single_article(entry) ==
    IF entry.fate = "raises" THEN [kind |-> "exception", entry |-> entry]
    ELSE IF entry.fate = "untitled" THEN [kind |-> "none", entry |-> entry]
    ELSE IF entry.key \in BatchView.news THEN [kind |-> "none", entry |-> entry]
    ELSE IF entry.fate = "no_embedding" THEN [kind |-> "none", entry |-> entry]
    ELSE [kind |-> "row", entry |-> entry]

\* asyncio.gather without return_exceptions: the first exception of a task
\* leaves the await.
GatherRaises_Propagates(entries) ==
    \E i \in 1..Len(entries) : entries[i].fate = "raises"

\* asyncio.gather(*tasks, return_exceptions=True): an exception of a task
\* is a result, the await raises nothing.
GatherRaises(entries) == FALSE

\* if result and not isinstance(result, Exception)
Storable(result) == result.kind = "row"

InInit ==
    /\ EmIdle
    /\ MxIdle
    /\ RbIdle
    /\ TrIdle
    /\ FtIdle
    /\ SeIdle
    /\ SvIdle
    /\ inBatch \in Batches
    /\ inPc = "idle"
    /\ inSrc = 0
    /\ inResults = <<>>
    /\ inIdx = 0
    /\ inEnt = -1
    /\ inProcessed = {}
    /\ dbStore \in StartStores
    /\ txStore = NoRows
    /\ srPc = "none"
    /\ srRanked = <<>>
    /\ srFeatures = <<>>

\* The batch moves on to the next source and awaits its feed, or returns
\* after the last source.
NextSource ==
    IF inSrc < Len(inBatch)
    THEN /\ inSrc' = inSrc + 1
         /\ inPc' = "fetching"
    ELSE /\ inSrc' = inSrc
         /\ inPc' = "done"

\* periodic_update calls fetch_and_index_news_async, which runs up to
\* `await loop.run_in_executor(...)` of the first source.
BatchStart ==
    /\ inPc = "idle"
    /\ MayStep("ingest")
    /\ NextSource
    /\ loopOwner' = "none"
    /\ UNCHANGED <<inBatch, inResults, inIdx, inEnt, inProcessed, dbStore, txStore,
                   srPc, srRanked, srFeatures>>
    /\ UNCHANGED notIn

\* The feed has been parsed.  When feedparser raised, the handler around
\* the source prints and the batch goes to the next source.  Otherwise
\* the tasks of the entries start and run up to their embedding, which
\* the batch awaits in asyncio.gather.
FeedParsed ==
    /\ inPc = "fetching"
    /\ MayStep("ingest")
    /\ IF inBatch[inSrc].feed = "raises"
       THEN /\ NextSource
            /\ UNCHANGED inResults
       ELSE /\ inPc' = "embedding"
            /\ inResults' = List([i \in 1..Len(inBatch[inSrc].entries) |->
                                    process_single_article(inBatch[inSrc].entries[i])])
            /\ UNCHANGED inSrc
    /\ loopOwner' = "none"
    /\ UNCHANGED <<inBatch, inIdx, inEnt, inProcessed, dbStore, txStore,
                   srPc, srRanked, srFeatures>>
    /\ UNCHANGED notIn

\* asyncio.gather returns and the write loop begins; the loop has no
\* await, so the batch keeps the event loop.  When gather raises, the
\* handler around the source prints and the batch goes to the next source.
Gathered ==
    /\ inPc = "embedding"
    /\ MayStep("ingest")
    /\ IF GatherRaises(inBatch[inSrc].entries)
       THEN /\ NextSource
            /\ loopOwner' = "none"
            /\ UNCHANGED inIdx
       ELSE /\ inPc' = "writing"
            /\ inIdx' = 1
            /\ loopOwner' = "ingest"
            /\ UNCHANGED inSrc
    /\ UNCHANGED <<inBatch, inResults, inEnt, inProcessed, dbStore, txStore,
                   srPc, srRanked, srFeatures>>
    /\ UNCHANGED notIn

\* for result in results: a result that is None or an exception is passed
\* over.
WriteSkip ==
    /\ inPc = "writing"
    /\ MayStep("ingest")
    /\ inIdx <= Len(inResults)
    /\ ~Storable(inResults[inIdx])
    /\ inIdx' = inIdx + 1
    /\ loopOwner' = "ingest"
    /\ UNCHANGED <<inBatch, inPc, inSrc, inResults, inEnt, inProcessed, dbStore, txStore,
                   srPc, srRanked, srFeatures>>
    /\ UNCHANGED notIn

\* INSERT INTO news: sqlite3.IntegrityError for a hash the table holds,
\* which passes the result over; otherwise the row is written and
\* save_entities is entered.
InsertNews ==
    /\ inPc = "writing"
    /\ MayStep("ingest")
    /\ inIdx <= Len(inResults)
    /\ Storable(inResults[inIdx])
    /\ inEnt = -1
    /\ IF UniqueViolated(inResults[inIdx].entry.key, BatchView)
       THEN /\ inIdx' = inIdx + 1
            /\ UNCHANGED <<inEnt, txStore>>
       ELSE /\ txStore' = IF inResults[inIdx].entry.key \in BatchView.news
                          THEN [txStore EXCEPT !.twice = @ \cup {inResults[inIdx].entry.key}]
                          ELSE [txStore EXCEPT !.news = @ \cup {inResults[inIdx].entry.key}]
            /\ inEnt' = 0
            /\ UNCHANGED inIdx
    /\ loopOwner' = "ingest"
    /\ UNCHANGED <<inBatch, inPc, inSrc, inResults, inProcessed, dbStore,
                   srPc, srRanked, srFeatures>>
    /\ UNCHANGED notIn

\* save_entities, up to its commit: extract_from_news, whose exception
\* the method prints, leaving without commit; then one INSERT INTO
\* entities for each entity.
InsertEntity ==
    /\ inPc = "writing"
    /\ MayStep("ingest")
    /\ inEnt >= 0
    /\ inEnt < MaxEnts
    /\ IF inResults[inIdx].entry.ner = "raises"
       THEN /\ inIdx' = inIdx + 1
            /\ inEnt' = -1
            /\ UNCHANGED txStore
       ELSE /\ txStore' = [txStore EXCEPT !.entities =
                              @ \cup {[key |-> inResults[inIdx].entry.key, idx |-> inEnt + 1]}]
            /\ inEnt' = inEnt + 1
            /\ UNCHANGED inIdx
    /\ loopOwner' = "ingest"
    /\ UNCHANGED <<inBatch, inPc, inSrc, inResults, inProcessed, dbStore,
                   srPc, srRanked, srFeatures>>
    /\ UNCHANGED notIn

\* conn.commit() at the end of save_entities.
CommitArticle ==
    /\ inPc = "writing"
    /\ MayStep("ingest")
    /\ inEnt = MaxEnts
    /\ dbStore' = Committed
    /\ txStore' = NoRows
    /\ inIdx' = inIdx + 1
    /\ inEnt' = -1
    /\ loopOwner' = "ingest"
    /\ UNCHANGED <<inBatch, inPc, inSrc, inResults, inProcessed, srPc, srRanked, srFeatures>>
    /\ UNCHANGED notIn

\* conn.commit() after the write loop; the batch goes to the next source,
\* whose feed it awaits, or returns.
CommitSource ==
    /\ inPc = "writing"
    /\ MayStep("ingest")
    /\ inIdx > Len(inResults)
    /\ dbStore' = Committed
    /\ txStore' = NoRows
    /\ inProcessed' = inProcessed \cup {inSrc}
    /\ NextSource
    /\ loopOwner' = "none"
    /\ UNCHANGED <<inBatch, inResults, inIdx, inEnt, srPc, srRanked, srFeatures>>
    /\ UNCHANGED notIn

\* A /search request arrives.
SearchArrives ==
    /\ srPc = "none"
    /\ srPc' = "pending"
    /\ UNCHANGED <<inBatch, inPc, inSrc, inResults, inIdx, inEnt, inProcessed, dbStore,
                   txStore, srRanked, srFeatures>>
    /\ UNCHANGED loopOwner
    /\ UNCHANGED notIn

\* search_news starts: NewsRAGSystem.search_similar opens a connection
\* and reads the news table.
SearchRanks ==
    /\ srPc = "pending"
    /\ MayStep("search")
    /\ srRanked' = << dbStore >>
    /\ srPc' = "ranked"
    /\ loopOwner' = "search"
    /\ UNCHANGED <<inBatch, inPc, inSrc, inResults, inIdx, inEnt, inProcessed, dbStore,
                   txStore, srFeatures>>
    /\ UNCHANGED notIn

\* _calculate_ner_overlap and get_news_entities_tags read the entities of
\* the ranked documents, on other connections.
SearchReadsEntities ==
    /\ srPc = "ranked"
    /\ MayStep("search")
    /\ srFeatures' = << dbStore >>
    /\ srPc' = "scored"
    /\ loopOwner' = "search"
    /\ UNCHANGED <<inBatch, inPc, inSrc, inResults, inIdx, inEnt, inProcessed, dbStore,
                   txStore, srRanked>>
    /\ UNCHANGED notIn

\* search_news returns its response.
SearchReturns ==
    /\ srPc = "scored"
    /\ MayStep("search")
    /\ srPc' = "done"
    /\ loopOwner' = "none"
    /\ UNCHANGED <<inBatch, inPc, inSrc, inResults, inIdx, inEnt, inProcessed, dbStore,
                   txStore, srRanked, srFeatures>>
    /\ UNCHANGED notIn

InNext ==
    \/ BatchStart
    \/ FeedParsed
    \/ Gathered
    \/ WriteSkip
    \/ InsertNews
    \/ InsertEntity
    \/ CommitArticle
    \/ CommitSource
    \/ SearchArrives
    \/ SearchRanks
    \/ SearchReadsEntities
    \/ SearchReturns

SpecIngest == InInit /\ [][InNext]_vars

\* The entity rows an article has once save_entities has returned: none
\* when extract_from_news raised.
SavedEntityRows(key) ==
    IF \E e \in EntrySamples : e.key = key /\ e.ner = "raises" THEN {} ELSE EntityRows(key)

\* C17: a search request that runs while a batch is appending reads the
\* news and the entities from one state of the store, and in that state
\* every document has all the entity rows save_entities wrote for it.
C17_SearchSeesOneSnapshot ==
    srFeatures # <<>> =>
        /\ srRanked = srFeatures
        /\ \A key \in srRanked[1].news :
              { r \in srFeatures[1].entities : r.key = key } = SavedEntityRows(key)

\* A search that ran between two sources of a running batch and ranked
\* two articles the batch had appended, one with its entities and one
\* whose entity extraction had failed.
C17_Witness ==
    /\ srPc = "scored"
    /\ inPc = "fetching"
    /\ inSrc = 2
    /\ {2, 3} \subseteq srRanked[1].news
    /\ srRanked = srFeatures

\* A batch is in progress.
BatchRunning == inPc \in {"fetching", "embedding", "writing"}

\* C18: while a batch is in progress, a search request that has arrived
\* can run at once, whatever step the batch is at, and the batch can take
\* its next step while a search is executing.
C18_SearchAndBatchNeverWait ==
    BatchRunning =>
        /\ srPc = "pending" => MayStep("search")
        /\ srPc \in {"ranked", "scored"} => MayStep("ingest")

\* The first half of C18: an arrived search can run at once.
SearchNeverWaitsForBatch ==
    (BatchRunning /\ srPc = "pending") => MayStep("search")

\* The second half of C18: the batch can step while a search executes.
BatchNeverWaitsForSearch ==
    (BatchRunning /\ srPc \in {"ranked", "scored"}) => MayStep("ingest")

\* A pending search waits for nothing but the write loop of the batch,
\* which runs from the return of asyncio.gather to the next await.
SearchWaitsOnlyForWriteLoop ==
    (srPc = "pending" /\ ~MayStep("search")) => inPc = "writing"

\* C19: when the batch has returned, every source whose feed parsed has
\* been processed to the end of its write loop, and every article of the
\* batch that was processed and embedded is stored, whatever became of
\* the other articles and of the sources before.
C19_FailuresArePerArticle ==
    inPc = "done" =>
        \A s \in 1..Len(inBatch) :
            inBatch[s].feed = "ok" =>
                /\ s \in inProcessed
                /\ \A i \in 1..Len(inBatch[s].entries) :
                      inBatch[s].entries[i].fate = "ok"
                          => inBatch[s].entries[i].key \in dbStore.news

\* A batch has returned whose first source held an article that raised
\* and one whose embedding failed; the new article of the second source
\* is stored, and nothing is left uncommitted.
C19_Witness ==
    /\ inPc = "done"
    /\ \E i \in 1..Len(inBatch[1].entries) : inBatch[1].entries[i].fate = "raises"
    /\ \E i \in 1..Len(inBatch[1].entries) : inBatch[1].entries[i].fate = "no_embedding"
    /\ 7 \in dbStore.news
    /\ txStore = NoRows

\* A batch has returned whose first source held an article that raised
\* next to a new article, which is stored with its entities.
SiblingOfFailedStored ==
    /\ inPc = "done"
    /\ \E i \in 1..Len(inBatch[1].entries) : inBatch[1].entries[i].fate = "raises"
    /\ 3 \in dbStore.news
    /\ EntityRows(3) \subseteq dbStore.entities

\* No article that failed in processing or embedding is stored.
FailedNotStored ==
    \A s \in 1..Len(inBatch) : \A i \in 1..Len(inBatch[s].entries) :
        inBatch[s].entries[i].fate # "ok" => inBatch[s].entries[i].key \notin dbStore.news

\* The positions at which a run of consecutive equal queries begins.
RunStarts(queries) ==
    { i \in 1..Len(queries) : i = 1 \/ queries[i] # queries[i - 1] }

\* The lengths of the runs of consecutive equal queries, in row order.
RunLengths(queries) ==
    LET starts == RunStarts(queries)
        StartOf(k) == CHOOSE i \in starts : Cardinality({ j \in starts : j < i }) = k - 1
    IN  [k \in 1..Cardinality(starts) |->
            (IF k < Cardinality(starts) THEN StartOf(k + 1) ELSE Len(queries) + 1) - StartOf(k)]

\* The rows group i of query_groups covers: those after the rows of the
\* groups before it.
GroupRows(query_groups, i) ==
    (SumSeq(SubSeq(query_groups, 1, i - 1)) + 1)..SumSeq(SubSeq(query_groups, 1, i))

\* What C20 states of the groups recorded for a query column.
GroupsAreRuns(query_groups, queries) ==
    /\ Len(query_groups) = Len(RunLengths(queries))
    /\ \A i \in 1..Len(query_groups) : query_groups[i] = RunLengths(queries)[i]
    /\ SumSeq(query_groups) = Len(queries)
    /\ \A i \in 1..Len(query_groups) :
          \A r1, r2 \in GroupRows(query_groups, i) : queries[r1] = queries[r2]

\* C20: the i-th recorded group size is the length of the i-th run of
\* consecutive rows of the training matrix that share a query; the groups
\* partition the rows in row order, each holds the rows of one query, and
\* the sizes sum to the number of labeled rows.
C20_GroupsAreRuns ==
    trPc = "split" => GroupsAreRuns(trGroups, QueryColumn(LabeledData(trDataset)))

\* C20 for the groups the retrain handler records.
ServiceGroupsAreRuns ==
    (trPc = "split" /\ trBy = "service")
        => GroupsAreRuns(trGroups, QueryColumn(LabeledData(trDataset)))

\* The sizes recorded by either pipeline sum to the number of labeled rows.
GroupSizesSumToRows ==
    trPc = "split" => SumSeq(trGroups) = Len(LabeledData(trDataset))

\* The retrain handler has recorded the groups of a dataset in which a
\* query comes back after another query.
ServiceGroupsReached ==
    /\ trPc = "split"
    /\ trBy = "service"
    /\ Len(trGroups) = 3
    /\ Cardinality(SeqRange(QueryColumn(LabeledData(trDataset)))) = 2

(***************************************************************************)
(* Embedding concurrency.  One run of fetch_and_index_news_async, seen     *)
(* from its permit pool: for each source the run creates a semaphore       *)
(* with max_concurrent permits and one task per entry, and awaits the      *)
(* tasks in asyncio.gather before it goes to the next source.  A task      *)
(* holds a permit from `async with semaphore` to the return of             *)
(* process_single_article; its embedding call runs in the executor while   *)
(* the task awaits it.                                                     *)
(***************************************************************************)
\* The largest max_concurrent sampled.
MaxConcurrent == 2

\* How many entries a source's feed has at most.
MaxTasks == 3

\* What process_single_article does with an entry: it returns before the
\* embedding call (no title or link, a content hash the table holds:
\* "skipped"), or it calls get_embedding_async, which returns a vector
\* ("embedded") or None ("no_embedding").
EmFates == {"skipped", "embedded", "no_embedding"}

\* load_sources(): the runs sampled, a first source with up to MaxTasks
\* entries and a second source with two entries or none.
EmBatches ==
    { <<a, b>> : a \in UNION { [1..n -> EmFates] : n \in 0..MaxTasks },
                 b \in { <<"embedded", "embedded">>, <<>> } }

\* A pool that never holds a task back.
MayAcquire_Always(permits) == TRUE

\* Semaphore.locked() is false: acquire() takes a permit without waiting.
\* Otherwise the task waits until a release wakes it.
MayAcquire(permits) == permits > 0

\* The embedding calls in flight: the tasks awaiting get_embedding_async.
InFlight == { t \in 1..Len(emTasks) : emTasks[t] = "embedding" }

EmInit ==
    /\ InIdle
    /\ MxIdle
    /\ RbIdle
    /\ TrIdle
    /\ FtIdle
    /\ SeIdle
    /\ SvIdle
    /\ emBatch \in EmBatches
    /\ emMax \in 1..MaxConcurrent
    /\ emPc = "idle"
    /\ emSrc = 0
    /\ emPermits = 0
    /\ emTasks = <<>>

\* The run reaches the next source: the feed is parsed,
\* asyncio.Semaphore(max_concurrent) is created, the tasks of the entries
\* are handed to asyncio.gather.  After the last source the run returns.
SourceBegins ==
    /\ emPc = "idle"
    /\ IF emSrc < Len(emBatch)
       THEN /\ emSrc' = emSrc + 1
            /\ emPermits' = emMax
            /\ emTasks' = [t \in 1..Len(emBatch[emSrc + 1]) |-> "waiting"]
            /\ emPc' = "gather"
       ELSE /\ emPc' = "done"
            /\ UNCHANGED <<emSrc, emPermits, emTasks>>
    /\ UNCHANGED <<emBatch, emMax>>
    /\ UNCHANGED notEm

\* process_with_semaphore(entry): the task takes a permit and runs
\* process_single_article up to its first await.  An entry that is
\* skipped returns None at once and `async with` gives the permit back;
\* otherwise the task awaits the embedding call, holding the permit.
TaskEnters(t) ==
    /\ emPc = "gather"
    /\ emTasks[t] = "waiting"
    /\ MayAcquire(emPermits)
    /\ IF emBatch[emSrc][t] = "skipped"
       THEN /\ emTasks' = [emTasks EXCEPT ![t] = "done"]
            /\ UNCHANGED emPermits
       ELSE /\ emTasks' = [emTasks EXCEPT ![t] = "embedding"]
            /\ emPermits' = emPermits - 1
    /\ UNCHANGED <<emBatch, emMax, emPc, emSrc>>
    /\ UNCHANGED notEm

\* The executor ends the embedding call with a vector, None or an
\* exception, which get_embedding_async turns into None.  The task
\* returns and `async with` gives the permit back.
EmbeddingReturns(t) ==
    /\ emPc = "gather"
    /\ emTasks[t] = "embedding"
    /\ emTasks' = [emTasks EXCEPT ![t] = "done"]
    /\ emPermits' = emPermits + 1
    /\ UNCHANGED <<emBatch, emMax, emPc, emSrc>>
    /\ UNCHANGED notEm

\* asyncio.gather returns once every task has; the results are written
\* and committed, and the run goes to the next source.
GatherReturns ==
    /\ emPc = "gather"
    /\ \A t \in 1..Len(emTasks) : emTasks[t] = "done"
    /\ emPc' = "idle"
    /\ UNCHANGED <<emBatch, emMax, emSrc, emPermits, emTasks>>
    /\ UNCHANGED notEm

EmNext ==
    \/ SourceBegins
    \/ \E t \in 1..MaxTasks : t <= Len(emTasks) /\ TaskEnters(t)
    \/ \E t \in 1..MaxTasks : t <= Len(emTasks) /\ EmbeddingReturns(t)
    \/ GatherReturns

SpecEmbed == EmInit /\ [][EmNext]_vars

\* C21: at every moment of the run, the embedding calls in flight are at
\* most max_concurrent, over all the articles and all the sources.
C21_InFlightAtMostMaxConcurrent ==
    Cardinality(InFlight) <= emMax

\* The pool is full while a task waits for a permit: max_concurrent calls
\* are in flight and the semaphore holds another task back.
C21_Witness ==
    /\ emPc = "gather"
    /\ Cardinality(InFlight) = emMax
    /\ \E t \in 1..Len(emTasks) : emTasks[t] = "waiting"

\* The permits taken are the calls in flight: none is lost, none is given
\* back twice.
PermitsConserved ==
    emPc = "gather" => emPermits + Cardinality(InFlight) = emMax

\* No call of a source is in flight when the next source begins.
NoCallBetweenSources ==
    emPc \in {"idle", "done"} => InFlight = {}

\* shutil.copy comes before pickle.dump: when the artifact file is written
\* over, a backup holds the content it had.
BackupMadeBeforeOverwrite ==
    [][ (artifactFile' # artifactFile /\ artifactFile.kind # "missing")
            => \E b \in backups : b.content = artifactFile ]_vars

\* A backup keeps the content it was made with.
BackupsKeepContent == [][ backups \subseteq backups' ]_vars

\* C22: in every retrain that finds a previous artifact, the artifact is
\* copied to a timestamped backup before the new one is written over it,
\* and from then on that backup holds the previous artifact's content: the
\* old artifact is superseded, never lost.
C22_PreviousArtifactBackedUpAndKept ==
    [][ /\ (artifactFile' # artifactFile /\ artifactFile.kind # "missing")
              => \E b \in backups : b.content = artifactFile
        /\ backups \subseteq backups' ]_vars

\* The artifact the service started with has been written over and no
\* backup holds it.
FirstArtifactLost ==
    /\ ragClass = "LTRNewsRAGSystem"
    /\ artifactFile # Valid(1)
    /\ \A b \in backups : b.content # Valid(1)

\* calculate_features(query, news) of the i-th candidate of the request.
CandidateFeatures(i) ==
    LTR_calculate_features(seQuery, seCandidates[1][i],
                           seCorpus[seCandidates[1][i].id].entities, seNow)

\* The values of the features named by the loaded column list, in the
\* order of the list.
NamedRow(features) ==
    List([c \in 1..Len(seArtifact[1].feature_columns) |->
             FeatureValue(features, seArtifact[1].feature_columns[c])])

\* The row of X made from the features is the named row, also when the
\* features come in the opposite order.
RowFollowsColumnList(features) ==
    /\ FeatureRow(seArtifact[1].feature_columns, features) = NamedRow(features)
    /\ FeatureRow(seArtifact[1].feature_columns, Reverse(features)) = NamedRow(features)

\* The score the loaded model gives a candidate whose feature named by
\* the model's column has the given value.
ScoreOf(value) == [n |-> seArtifact[1].ltr_model.sign * value.n, d |-> value.d]

\* The index, among the candidates, of an item of the response.
CandidateOf(item) ==
    CHOOSE i \in 1..Len(seCandidates[1]) : seCandidates[1][i].id = item.id

\* A request answered by a loaded model.
Reranked == seArtifact # <<>> /\ seResponse # <<>> /\ seResponse[1].status = 200
                /\ seCandidates # <<>>

\* C23: for a loaded artifact whose column list is a permutation of the
\* nine feature names, the vector passed to the model for each candidate
\* has at position i the value of the feature named by the artifact's
\* i-th column, whatever the order in which calculate_features produced
\* the features; so the score of each returned document is the model's
\* score of its named feature.
C23_VectorFollowsColumnList ==
    Reranked =>
        /\ \A i \in 1..Len(seCandidates[1]) : RowFollowsColumnList(CandidateFeatures(i))
        /\ \A k \in 1..Len(seResponse[1].news) :
              seResponse[1].news[k].ltr_score
                 = << ScoreOf(FeatureValue(
                          CandidateFeatures(CandidateOf(seResponse[1].news[k])),
                          seArtifact[1].feature_columns[seArtifact[1].ltr_model.column])) >>

\* A reranked response under a column list in another order than
\* calculate_features', for a candidate whose feature at the model's
\* position differs from the feature the model's column names.
C23_Witness ==
    /\ Reranked
    /\ seArtifact[1].feature_columns # FeatureNames
    /\ \E k \in 1..Len(seResponse[1].news) :
          LET features == CandidateFeatures(CandidateOf(seResponse[1].news[k]))
              column == seArtifact[1].ltr_model.column
          IN  features[column].value
                 # FeatureValue(features, seArtifact[1].feature_columns[column])

\* Q: the token set of the query, set(query.lower().split()).
QueryTokenSet == SeqRange(Split(Lower(ftQuery)))

\* T: the token set of the candidate's title.
TitleTokenSet == SeqRange(Split(Lower(ftNews.title)))

\* The title_match values the two extractions have computed.
TitleMatches ==
    { FeatureValue(r[1], "title_match") : r \in { x \in {ftOffline, ftOnline} : x # <<>> } }

\* C24 as stated: title_match is the Jaccard similarity |Q n T| / |Q u T|
\* of the query's token set and the title's, for every query and title; a
\* title with tokens beyond the query's gives a value below 1.0.
C24_TitleMatchIsJaccard ==
    \A v \in TitleMatches :
        /\ QueryTokenSet \cup TitleTokenSet # {}
              => v = Jaccard(QueryTokenSet, TitleTokenSet)
        /\ (QueryTokenSet # {} /\ TitleTokenSet \ QueryTokenSet # {}) => GtFrac(Whole(1), v)

\* C24 amended: title_match is the share of the query's tokens found among
\* the title's tokens, |Q n T| / |Q|, and 0.0 for a query without tokens;
\* a title that holds every token of the query gives 1.0, whatever other
\* tokens it has.
C24_TitleMatchIsQueryCoverage ==
    \A v \in TitleMatches :
        /\ QueryTokenSet = {} => v = Whole(0)
        /\ QueryTokenSet # {}
              => v = Frac(Cardinality(QueryTokenSet \cap TitleTokenSet),
                          Cardinality(QueryTokenSet))
        /\ (QueryTokenSet # {} /\ QueryTokenSet \subseteq TitleTokenSet) => v = Whole(1)

\* Both extractions have computed title_match for a title that holds the
\* query's tokens and more: the value is 1.0 and the Jaccard similarity is
\* below it.
C24_Witness ==
    /\ ftOffline # <<>>
    /\ ftOnline # <<>>
    /\ QueryTokenSet # {}
    /\ QueryTokenSet \subseteq TitleTokenSet
    /\ TitleTokenSet \ QueryTokenSet # {}
    /\ TitleMatches = {Whole(1)}
    /\ GtFrac(Whole(1), Jaccard(QueryTokenSet, TitleTokenSet))

\* C25: a retrain request that ends in an error, at whatever step, leaves
\* the in-memory model, the in-memory feature-column list and the
\* persisted artifact as they were before the request: the model the
\* request trained is neither installed nor persisted.
C25_FailedRetrainInstallsNothing ==
    (rt.pc = "failed" /\ rt.model # 0)
        => /\ ltrModel # rt.model
           /\ featureColumns # rt.model
           /\ artifactFile # Valid(rt.model)

\* A request that failed before model.fit returned has changed nothing.
RejectedRetrainInstallsNothing ==
    [][ (rt'.pc = "failed" /\ rt'.model = 0)
            => UNCHANGED <<ltrModel, featureColumns, artifactFile, backups>> ]_vars

\* A request answered with an error whose model serves the searches and
\* is the persisted artifact.
FailedRetrainInstalled ==
    /\ rt.pc = "failed"
    /\ rt.model # 0
    /\ ltrModel = rt.model
    /\ featureColumns = rt.model
    /\ artifactFile = Valid(rt.model)
    /\ lastGood # rt.model

\* The query groups of the train partition and of the validation
\* partition: query_groups[:split_idx] and query_groups[split_idx:].
TrainGroups == Prefix(trGroups, SplitIdx(Len(trGroups)))

ValGroups == Suffix(trGroups, SplitIdx(Len(trGroups)))

\* C26: whenever the dataset has the minimum of labeled examples, the
\* train partition and the validation partition of the 80/20 group split
\* each hold at least one query group, for every number of query groups,
\* one included.
C26_BothPartitionsHaveAGroup ==
    (trPc = "split" /\ Len(LabeledData(trDataset)) >= MinLabeled)
        => /\ TrainGroups # <<>>
           /\ ValGroups # <<>>
           /\ trTrain # <<>>
           /\ trVal # <<>>

\* With two query groups or more, both partitions hold a group.
BothPartitionsFromTwoGroups ==
    (trPc = "split" /\ Len(trGroups) >= 2)
        => TrainGroups # <<>> /\ ValGroups # <<>> /\ trTrain # <<>> /\ trVal # <<>>

\* The validation partition always holds a group.
ValidationNeverEmpty == trPc = "split" => ValGroups # <<>> /\ trVal # <<>>

\* The retrain handler has split a dataset of one query with the minimum
\* of labeled rows: the train partition is empty.
EmptyTrainPartitionReached ==
    /\ trPc = "split"
    /\ trBy = "service"
    /\ Len(LabeledData(trDataset)) >= MinLabeled
    /\ Len(trGroups) = 1
    /\ trTrain = <<>>

(***************************************************************************)
(* The training matrix.  A row of the dataset carries its features as a    *)
(* dictionary, held here as the sequence of its items in the order the     *)
(* dictionary lists them (the order of the JSON object of the request or   *)
(* of the dataset file).  The retrain handler and the training script      *)
(* each build the matrix X and the list feature_columns from the rows.     *)
(***************************************************************************)
\* The feature names of the sampled dictionaries.
MxNames == {"embedding_score", "bm25_score", "days_ago"}

\* The feature values sampled.
MxValues == {0, 1}

\* The dictionaries sampled: every order of the names, every value.
FeatureDicts ==
    { List([i \in 1..Cardinality(MxNames) |-> [name |-> names[i], value |-> values[i]]]) :
        names \in Orderings(MxNames), values \in [1..Cardinality(MxNames) -> MxValues] }

\* A labeled row with the given features.
MxRow(features) == [query |-> 1, label |-> "2", features |-> features]

\* The datasets sampled: the minimum of labeled rows, the last of them
\* with a dictionary of its own.
MxDatasets ==
    { Repeat(MxRow(a), MinLabeled - 1) \o << MxRow(b) >> : a, b \in FeatureDicts }

\* list(d.keys())
Keys(d) == List([i \in 1..Len(d) |-> d[i].name])

\* list(d.values())
Values(d) == List([i \in 1..Len(d) |-> d[i].value])

\* pd.DataFrame(rows)[feature_columns] of the script, one row: the value
\* of each column's name.
Aligned(feature_columns, d) ==
    List([c \in 1..Len(feature_columns) |-> FeatureValue(d, feature_columns[c])])

MxInit ==
    /\ InIdle
    /\ EmIdle
    /\ RbIdle
    /\ TrIdle
    /\ FtIdle
    /\ SeIdle
    /\ SvIdle
    /\ mxDataset \in MxDatasets
    /\ mxBy = "none"
    /\ mxColumns = <<>>
    /\ mxX = <<>>

\* POST /api/ltr/retrain, step 3: feature_columns from the keys of the
\* first labeled row, X from the values of every labeled row in the order
\* its own dictionary lists them.
RetrainMatrix ==
    /\ mxBy = "none"
    /\ LET labeled_data == LabeledData(mxDataset)
       IN  /\ mxColumns' = Keys(labeled_data[1].features)
           /\ mxX' = List([i \in 1..Len(labeled_data) |-> Values(labeled_data[i].features)])
    /\ mxBy' = "service"
    /\ UNCHANGED mxDataset
    /\ UNCHANGED notMx

\* train_ltr_model.py, prepare_training_data: the rows become a DataFrame,
\* whose columns are the keys in the order they first appear and whose
\* cells are filled by key; X is the DataFrame's feature columns.
ScriptMatrix ==
    /\ mxBy = "none"
    /\ LET annotated == LabeledData(mxDataset)
           feature_columns == Keys(annotated[1].features)
       IN  /\ mxColumns' = feature_columns
           /\ mxX' = List([i \in 1..Len(annotated) |->
                              Aligned(feature_columns, annotated[i].features)])
    /\ mxBy' = "script"
    /\ UNCHANGED mxDataset
    /\ UNCHANGED notMx

MxNext == RetrainMatrix \/ ScriptMatrix

SpecMatrix == MxInit /\ [][MxNext]_vars

\* What C27 states of a matrix and a column list.
MatrixFollowsColumns ==
    \A i \in 1..Len(mxX) : \A c \in 1..Len(mxColumns) :
        mxX[i][c] = FeatureValue(LabeledData(mxDataset)[i].features, mxColumns[c])

\* C27: in retrain, for every labeled row the value at column i of the
\* training matrix is the row's value of the feature named by the i-th
\* entry of the persisted feature-column list, also when the dictionaries
\* of different rows list their keys in different orders.
C27_MatrixFollowsColumnList == mxBy = "service" => MatrixFollowsColumns

\* The matrix of the training script follows its column list.
ScriptMatrixFollowsColumns == mxBy = "script" => MatrixFollowsColumns

\* The retrain matrix follows the column list when every row lists its
\* keys in the order of the first row.
RetrainMatrixFollowsColumnsInOneOrder ==
    (mxBy = "service"
        /\ \A i \in 1..Len(mxDataset) : Keys(mxDataset[i].features) = mxColumns)
        => MatrixFollowsColumns

\* A retrain matrix with a cell that holds the value of another feature
\* than its column names.
MisalignedCellReached ==
    /\ mxBy = "service"
    /\ \E i \in 1..Len(mxX) : \E c \in 1..Len(mxColumns) :
          mxX[i][c] # FeatureValue(mxDataset[i].features, mxColumns[c])

\* Items of equal finite score stand in increasing order of the given
\* positions.
TiesKeepOrder(scores, positions) ==
    \A k \in 1..Len(scores) : \A l \in (k + 1)..Len(scores) :
        (IsFinite(scores[k]) /\ scores[k] = scores[l]) => positions[k] < positions[l]

\* The base search returns documents of equal similarity in row order,
\* in its response and in the candidates it hands to the model.
BaseTiesInRowOrder ==
    /\ (seArtifact = <<>> /\ seResponse # <<>>)
          => TiesKeepOrder(SimilarityKeys(seResponse[1].news), Ids(seResponse[1].news))
    /\ seCandidates # <<>>
          => TiesKeepOrder(SimilarityKeys(seCandidates[1]), Ids(seCandidates[1]))

\* The reranked response returns candidates of equal model score in the
\* order of the base ranking.
ModelTiesInBaseOrder ==
    Reranked =>
        TiesKeepOrder(List([k \in 1..Len(seResponse[1].news) |->
                               seResponse[1].news[k].ltr_score[1]]),
                      List([k \in 1..Len(seResponse[1].news) |->
                               CandidateOf(seResponse[1].news[k])]))

\* The fusion returns documents of equal fused score in row order.
FusionTiesInRowOrder ==
    (seFusion # <<>> /\ ~seFusion[1].raised)
        => TiesKeepOrder(SimilarityKeys(seFusion[1].results), Ids(seFusion[1].results))

\* C28: ranking is stable on ties: candidates of equal model score are
\* returned in their order in the base ranking, and documents of equal
\* base score in store (row) order, in the base search and in the fusion;
\* the output order is a function of the scores and the input order only.
C28_TiesKeepInputOrder ==
    /\ BaseTiesInRowOrder
    /\ ModelTiesInBaseOrder
    /\ FusionTiesInRowOrder

\* The fusion has returned two documents of equal fused score with the
\* later row first.
FusionTieAgainstRowOrder ==
    /\ seFusion # <<>>
    /\ \E k \in 1..Len(seFusion[1].results) : \E l \in (k + 1)..Len(seFusion[1].results) :
          /\ seFusion[1].results[k].similarity = seFusion[1].results[l].similarity
          /\ seFusion[1].results[k].id > seFusion[1].results[l].id

\* The base search and the reranking have each returned a tie.
TiesReached ==
    /\ Reranked
    /\ \E k \in 1..Len(seResponse[1].news) : \E l \in (k + 1)..Len(seResponse[1].news) :
          seResponse[1].news[k].ltr_score = seResponse[1].news[l].ltr_score
    /\ \E k \in 1..Len(seCandidates[1]) : \E l \in (k + 1)..Len(seCandidates[1]) :
          seCandidates[1][k].similarity = seCandidates[1][l].similarity

\* C29: after any sequence of sources and commits of ingestion, no two
\* stored documents share a content hash, also when one fetched batch
\* holds the same article twice and both copies pass the duplicate check
\* before either is inserted.
C29_ContentHashesUnique ==
    /\ dbStore.twice = {}
    /\ txStore.twice = {}

\* The write loop has gone through the results of a source whose feed
\* held the same new article twice: both copies passed the duplicate
\* check, and the article is stored.
C29_Witness ==
    /\ inPc = "writing"
    /\ Len(inResults) = 2
    /\ inIdx > Len(inResults)
    /\ Storable(inResults[1])
    /\ Storable(inResults[2])
    /\ inResults[1].entry.key = inResults[2].entry.key
    /\ inResults[1].entry.key \in BatchView.news

\* An article of a later source that an earlier source of the batch
\* stored does not pass the duplicate check.
StoredArticleSkippedLater ==
    (inPc = "embedding" /\ inSrc = 2)
        => \A i \in 1..Len(inResults) :
              (3 \in dbStore.news /\ inResults[i].entry.key = 3) => ~Storable(inResults[i])

\* The days_ago values the two extractions have computed.
DaysAgoValues ==
    { FeatureValue(r[1], "days_ago") : r \in { x \in {ftOffline, ftOnline} : x # <<>> } }

\* calculate_recency_boost for the candidate's published value takes its
\* no-date branch or its parse-failure branch.
RecencyUnparsed ==
    \/ IsFalsy(ftNews.published)
    \/ ~parsedate_to_datetime(ftNews.published).ok /\ ~fromisoformat(ftNews.published).ok

\* C30: the recency multiplier and the days_ago feature agree on whether a
\* published timestamp is parsable: days_ago is the sentinel 999 exactly
\* when calculate_recency_boost takes its no-date or parse-failure branch,
\* so no document has a recency multiplier above 1.0 while its days_ago
\* is 999.
C30_RecencyAndDaysAgoAgree ==
    \A v \in DaysAgoValues :
        /\ (v = Whole(999)) <=> RecencyUnparsed
        /\ v = Whole(999) => calculate_recency_boost(ftNews.published, ftNow).value <= 100

\* The sentinel is given to every timestamp the recency multiplier does
\* not parse.
UnparsedGetSentinel ==
    \A v \in DaysAgoValues : RecencyUnparsed => v = Whole(999)

\* The two agree on every timestamp that is not RFC 2822 text without
\* the day of the week.
AgreeButOnRfcWithoutWeekday ==
    \A v \in DaysAgoValues :
        ftNews.published.shape # "rfc_nodow" => ((v = Whole(999)) <=> RecencyUnparsed)

\* Both extractions give the sentinel to a document whose recency
\* multiplier is 1.3.
SentinelWithFullBoost ==
    /\ ftOffline # <<>>
    /\ ftOnline # <<>>
    /\ DaysAgoValues = {Whole(999)}
    /\ calculate_recency_boost(ftNews.published, ftNow).value = 130

====
